---- MODULE Spec2Model ----
(***************************************************************************)
(* State-machine model of TradingBot (src/trading_bot.py).                 *)
(*                                                                         *)
(* Fixed-point representation of the program's floats:                     *)
(*   prices      whole dollars                                             *)
(*   quantities  1/UnitsPerDollar of a coin                                *)
(*   money       1/UnitsPerDollar of a dollar, so price * quantity is the  *)
(*               exact notional and a cent is UnitsPerCent money units     *)
(*   fractions   risk settings in 1/10000, percent changes in 1/100 of a   *)
(*               percent, confidences in 1/1000                            *)
(*   time        seconds                                                   *)
(***************************************************************************)
EXTENDS Integers, Sequences, FiniteSets, TLC

\* ------------------------------------------------------------------ bounds
\* The clock stops at MaxTime; a trading cycle is not started once a price
\* history holds MaxHist observations; at most MaxRows position rows are
\* created by direct execute_trade calls; at most MaxThreads loop threads.
MaxTime == 30
MaxHist == 2
MaxRows == 2
MaxThreads == 2
\* The specification of the position records follows the clock for
\* MaxWindows cooldown windows.
MaxWindows == 2


\* Inputs of the model.
Symbols == {"bitcoin", "ethereum"}
SymOrder == <<"bitcoin", "ethereum">>
Prices == {100, 104}
Changes == {0, 200}
\* The observations the provider may report for a symbol.
Observations(s) ==
    IF s = "bitcoin" THEN [price : Prices, change_24h : Changes]
    ELSE {[price |-> 100, change_24h |-> 200]}
\* The symbols of the direct execute_trade calls.
CallSymbols == {"bitcoin"}
Quantities == {1, 500, 60000}
Confidences == {100, 950}

\* ------------------------------------------------------- money resolution
UnitsPerCent == 5
UnitsPerDollar == 100 * UnitsPerCent

\* round(x, 2): to the nearest cent (UnitsPerCent is odd: no ties).
Round2(m) ==
    IF m >= 0
    THEN ((m + (UnitsPerCent \div 2)) \div UnitsPerCent) * UnitsPerCent
    ELSE -((((-m) + (UnitsPerCent \div 2)) \div UnitsPerCent) * UnitsPerCent)

\* The 0.01 profit floor of execute_trade and close_all_positions.
MinProfit == UnitsPerCent

\* ------------------------------------------------------ program constants
InitialBalance == 10000 * UnitsPerDollar
risk_per_trade == 150
max_risk_per_symbol == 300
max_trades_history == 200
min_hold_time == 30
trading_interval == 10
max_concurrent_positions == 8
position_sizing_multiplier == 100
max_history_length == 100

\* Optional[...] fields: <<>> is None, <<v>> a value.
None == <<>>
Some(v) == <<v>>

VARIABLES
    balance,           \* BalanceDB.value
    positions,         \* PositionDB rows in id order
    trades,            \* TradeDB rows in id order
    position_cooldown, \* symbol -> None | Some(time of the last trade)
    market_data,       \* symbol -> None | Some([price, change_24h])
    market_order,      \* keys of market_data in insertion order
    price_history,     \* symbol -> sequence of observed prices
    risk,              \* the risk settings of the bot
    is_running,
    manually_stopped,
    loops,             \* loop thread -> its position
    stop,              \* the stop request in flight
    now,               \* datetime.now()
    cache,             \* market_data_lock and the users of the market-data caches
    balance_at_open,   \* history: the balance read before positions[i] opened
    call               \* history: the last operation and how it ended

vars == <<balance, positions, trades, position_cooldown, market_data,
          market_order, price_history, risk, is_running, manually_stopped,
          loops, stop, now, cache, balance_at_open, call>>

Threads == 1..MaxThreads

\* ------------------------------------------------------------ the store
\* The rows the execution engine reads and writes, as one value.
Store == [balance |-> balance, positions |-> positions, trades |-> trades,
          cooldown |-> position_cooldown, at_open |-> balance_at_open]

\* query(PositionDB).filter_by(status='OPEN').all()
OpenIdx(pos) == {i \in DOMAIN pos : pos[i].status = "OPEN"}

\* query(PositionDB).filter_by(symbol=s, status='OPEN').all()
OpenIdxOf(pos, s) == {i \in OpenIdx(pos) : pos[i].symbol = s}

\* The first row of the symbol whatever its status.
FirstOfSymbol(pos, s) ==
    IF {i \in DOMAIN pos : pos[i].symbol = s} = {} THEN 0
    ELSE CHOOSE i \in DOMAIN pos :
            pos[i].symbol = s /\ \A j \in 1..(i - 1) : pos[j].symbol # s

\* query(PositionDB).filter_by(symbol=s, status='OPEN').first(): 0 is None
FirstOpen(pos, s) ==
    IF OpenIdxOf(pos, s) = {} THEN 0
    ELSE CHOOSE i \in OpenIdxOf(pos, s) : \A j \in OpenIdxOf(pos, s) : i <= j

RECURSIVE SumOver(_, _)
SumOver(f, S) ==
    IF S = {} THEN 0
    ELSE LET x == CHOOSE y \in S : TRUE IN f[x] + SumOver(f, S \ {x})

\* sum(p.entry_price * p.quantity for p in rows)
Exposure(pos, S) ==
    SumOver([i \in DOMAIN pos |-> pos[i].entry_price * pos[i].quantity], S)

\* time_since_last_trade < min_hold_time
InCooldown(cd, s, t) == cd[s] # None /\ t - cd[s][1] < min_hold_time

Signal(s, a, p, q, t, strat, conf) ==
    [symbol |-> s, action |-> a, price |-> p, quantity |-> q, timestamp |-> t,
     strategy |-> strat, confidence |-> conf]

\* NewPosition with current_price left at 0.
NewPositionUnpriced(sig) ==
    [symbol |-> sig.symbol, side |-> "LONG", entry_price |-> sig.price,
     quantity |-> sig.quantity, entry_time |-> sig.timestamp,
     current_price |-> 0, unrealized_pnl |-> 0, status |-> "OPEN",
     exit_price |-> None, exit_time |-> None, realized_pnl |-> None]

NewPosition(sig) ==
    [symbol |-> sig.symbol, side |-> "LONG", entry_price |-> sig.price,
     quantity |-> sig.quantity, entry_time |-> sig.timestamp,
     current_price |-> sig.price, unrealized_pnl |-> 0, status |-> "OPEN",
     exit_price |-> None, exit_time |-> None, realized_pnl |-> None]

\* NewTrade carrying the quantity of the signal.
NewTradeOfSignal(st, sig, p, pnl) ==
    [trade_id |-> Len(st.trades) + 1, symbol |-> sig.symbol, side |-> "SELL",
     price |-> sig.price, quantity |-> sig.quantity, timestamp |-> sig.timestamp,
     strategy |-> sig.strategy, pnl |-> pnl]

NewTrade(st, sig, p, pnl) ==
    [trade_id |-> Len(st.trades) + 1, symbol |-> sig.symbol, side |-> "SELL",
     price |-> sig.price, quantity |-> p.quantity, timestamp |-> sig.timestamp,
     strategy |-> sig.strategy, pnl |-> pnl]

\* ----------------------------------------------------------- execute_trade
\* ExecuteBuy without the test for an OPEN position of the asset.
ExecuteBuyTwice(st, sig, t) ==
    LET cost == sig.price * sig.quantity IN
    IF cost > st.balance
    THEN [st |-> st, outcome |-> "insufficient"]
    ELSE [st |-> [st EXCEPT !.balance = @ - cost,
                            !.positions = Append(@, NewPosition(sig)),
                            !.at_open = Append(@, st.balance),
                            !.cooldown[sig.symbol] = Some(t)],
          outcome |-> "bought"]

\* ExecuteBuy without the test of the balance.
ExecuteBuyOnCredit(st, sig, t) ==
    LET cost == sig.price * sig.quantity IN
    IF FirstOpen(st.positions, sig.symbol) # 0
    THEN [st |-> st, outcome |-> "already_open"]
    ELSE [st |-> [st EXCEPT !.balance = @ - cost,
                            !.positions = Append(@, NewPosition(sig)),
                            !.at_open = Append(@, st.balance),
                            !.cooldown[sig.symbol] = Some(t)],
          outcome |-> "bought"]

\* ExecuteBuy recording the cooldown of the asset before the tests.
ExecuteBuyMarking(st, sig, t) ==
    LET cost == sig.price * sig.quantity
        marked == [st EXCEPT !.cooldown[sig.symbol] = Some(t)]
    IN
    IF FirstOpen(st.positions, sig.symbol) # 0
    THEN [st |-> marked, outcome |-> "already_open"]
    ELSE IF cost > st.balance
    THEN [st |-> marked, outcome |-> "insufficient"]
    ELSE [st |-> [st EXCEPT !.balance = @ - cost,
                            !.positions = Append(@, NewPosition(sig)),
                            !.at_open = Append(@, st.balance),
                            !.cooldown[sig.symbol] = Some(t)],
          outcome |-> "bought"]

\* The BUY branch after the cooldown check.
ExecuteBuy(st, sig, t) ==
    LET cost == sig.price * sig.quantity IN
    IF FirstOpen(st.positions, sig.symbol) # 0
    THEN [st |-> st, outcome |-> "already_open"]
    ELSE IF cost > st.balance
    THEN [st |-> st, outcome |-> "insufficient"]
    ELSE [st |-> [st EXCEPT !.balance = @ - cost,
                            !.positions = Append(@, NewPosition(sig)),
                            !.at_open = Append(@, st.balance),
                            !.cooldown[sig.symbol] = Some(t)],
          outcome |-> "bought"]

\* ExecuteSell with the profit floor at 0 instead of 0.01: it turns down
\* only the losses.
ExecuteSellAtZero(st, sig, t) ==
    LET i == FirstOpen(st.positions, sig.symbol) IN
    IF i = 0
    THEN [st |-> st, outcome |-> "no_position"]
    ELSE
      LET p == st.positions[i]
          realized_pnl == Round2((sig.price - p.entry_price) * p.quantity)
      IN
      IF realized_pnl < 0
      THEN [st |-> st, outcome |-> "below_floor"]
      ELSE [st |-> [st EXCEPT !.positions[i].status = "CLOSED",
                              !.positions[i].exit_price = Some(sig.price),
                              !.positions[i].exit_time = Some(sig.timestamp),
                              !.positions[i].realized_pnl = Some(realized_pnl),
                              !.balance = @ + sig.price * p.quantity,
                              !.cooldown[sig.symbol] = Some(t),
                              !.trades = Append(@, NewTrade(st, sig, p, realized_pnl))],
            outcome |-> "sold"]

\* ExecuteSell without the cooldown recorded.
ExecuteSellUnrecorded(st, sig, t) ==
    LET i == FirstOpen(st.positions, sig.symbol) IN
    IF i = 0
    THEN [st |-> st, outcome |-> "no_position"]
    ELSE
      LET p == st.positions[i]
          realized_pnl == Round2((sig.price - p.entry_price) * p.quantity)
      IN
      IF realized_pnl < MinProfit
      THEN [st |-> st, outcome |-> "below_floor"]
      ELSE [st |-> [st EXCEPT !.positions[i].status = "CLOSED",
                              !.positions[i].exit_price = Some(sig.price),
                              !.positions[i].exit_time = Some(sig.timestamp),
                              !.positions[i].realized_pnl = Some(realized_pnl),
                              !.balance = @ + sig.price * p.quantity,
                              !.trades = Append(@, NewTrade(st, sig, p, realized_pnl))],
            outcome |-> "sold"]

\* ExecuteSell selling the quantity the signal carries.
ExecuteSellOfSignal(st, sig, t) ==
    LET i == FirstOpen(st.positions, sig.symbol) IN
    IF i = 0
    THEN [st |-> st, outcome |-> "no_position"]
    ELSE
      LET p == st.positions[i]
          realized_pnl == Round2((sig.price - p.entry_price) * sig.quantity)
      IN
      IF realized_pnl < MinProfit
      THEN [st |-> st, outcome |-> "below_floor"]
      ELSE [st |-> [st EXCEPT !.positions[i].status = "CLOSED",
                              !.positions[i].exit_price = Some(sig.price),
                              !.positions[i].exit_time = Some(sig.timestamp),
                              !.positions[i].realized_pnl = Some(realized_pnl),
                              !.balance = @ + sig.price * sig.quantity,
                              !.cooldown[sig.symbol] = Some(t),
                              !.trades = Append(@, NewTradeOfSignal(st, sig, p, realized_pnl))],
            outcome |-> "sold"]

\* ExecuteSell without the profit floor.
ExecuteSellUnfloored(st, sig, t) ==
    LET i == FirstOpen(st.positions, sig.symbol) IN
    IF i = 0
    THEN [st |-> st, outcome |-> "no_position"]
    ELSE
      LET p == st.positions[i]
          realized_pnl == Round2((sig.price - p.entry_price) * p.quantity)
      IN [st |-> [st EXCEPT !.positions[i].status = "CLOSED",
                            !.positions[i].exit_price = Some(sig.price),
                            !.positions[i].exit_time = Some(sig.timestamp),
                            !.positions[i].realized_pnl = Some(realized_pnl),
                            !.balance = @ + sig.price * p.quantity,
                            !.cooldown[sig.symbol] = Some(t),
                            !.trades = Append(@, NewTrade(st, sig, p, realized_pnl))],
          outcome |-> "sold"]

\* ExecuteSell crediting the realized PnL instead of the position value.
ExecuteSellCreditingPnl(st, sig, t) ==
    LET i == FirstOpen(st.positions, sig.symbol) IN
    IF i = 0
    THEN [st |-> st, outcome |-> "no_position"]
    ELSE
      LET p == st.positions[i]
          realized_pnl == Round2((sig.price - p.entry_price) * p.quantity)
      IN
      IF realized_pnl < MinProfit
      THEN [st |-> st, outcome |-> "below_floor"]
      ELSE [st |-> [st EXCEPT !.positions[i].status = "CLOSED",
                              !.positions[i].exit_price = Some(sig.price),
                              !.positions[i].exit_time = Some(sig.timestamp),
                              !.positions[i].realized_pnl = Some(realized_pnl),
                              !.balance = @ + realized_pnl,
                              !.cooldown[sig.symbol] = Some(t),
                              !.trades = Append(@, NewTrade(st, sig, p, realized_pnl))],
            outcome |-> "sold"]

\* The SELL branch after the cooldown check. The history trim calls
\* .delete() on a row object, which has no such method: the AttributeError
\* is caught by execute_trade's handler after the trade is committed.
ExecuteSell(st, sig, t) ==
    LET i == FirstOpen(st.positions, sig.symbol) IN
    IF i = 0
    THEN [st |-> st, outcome |-> "no_position"]
    ELSE
      LET p == st.positions[i]
          realized_pnl == Round2((sig.price - p.entry_price) * p.quantity)
      IN
      IF realized_pnl < MinProfit
      THEN [st |-> st, outcome |-> "below_floor"]
      ELSE [st |-> [st EXCEPT !.positions[i].status = "CLOSED",
                              !.positions[i].exit_price = Some(sig.price),
                              !.positions[i].exit_time = Some(sig.timestamp),
                              !.positions[i].realized_pnl = Some(realized_pnl),
                              !.balance = @ + sig.price * p.quantity,
                              !.cooldown[sig.symbol] = Some(t),
                              !.trades = Append(@, NewTrade(st, sig, p, realized_pnl))],
            outcome |-> IF Len(st.trades) + 1 > max_trades_history
                        THEN "sold_trim_failed" ELSE "sold"]

\* execute_trade without the test of the cooldown.
execute_trade_no_cooldown(st, sig, t) ==
    IF sig.action = "BUY" THEN ExecuteBuy(st, sig, t)
    ELSE IF sig.action = "SELL" THEN ExecuteSell(st, sig, t)
    ELSE [st |-> st, outcome |-> "ignored"]

\* execute_trade with the cooldown tested for SELL signals only.
execute_trade_sell_cooldown(st, sig, t) ==
    IF sig.action = "SELL" /\ InCooldown(st.cooldown, sig.symbol, t)
    THEN [st |-> st, outcome |-> "cooldown"]
    ELSE IF sig.action = "BUY" THEN ExecuteBuy(st, sig, t)
    ELSE IF sig.action = "SELL" THEN ExecuteSell(st, sig, t)
    ELSE [st |-> st, outcome |-> "ignored"]

execute_trade(st, sig, t) ==
    IF InCooldown(st.cooldown, sig.symbol, t)
    THEN [st |-> st, outcome |-> "cooldown"]
    ELSE IF sig.action = "BUY" THEN ExecuteBuy(st, sig, t)
    ELSE IF sig.action = "SELL" THEN ExecuteSell(st, sig, t)
    ELSE [st |-> st, outcome |-> "ignored"]

\* ---------------------------------------------------- close_all_positions
\* close_all_positions closing every OPEN row at its current price without
\* crediting the balance or recording a trade.
close_all_positions_uncredited(st) ==
    [st |-> [st EXCEPT !.positions =
                [i \in DOMAIN st.positions |->
                    IF st.positions[i].status = "OPEN"
                    THEN [st.positions[i] EXCEPT
                             !.status = "CLOSED",
                             !.exit_price = Some(st.positions[i].current_price),
                             !.realized_pnl = Some(0)]
                    ELSE st.positions[i]]],
     outcome |-> "returned",
     count |-> Cardinality(OpenIdx(st.positions))]

\* The for statement unpacks each PositionDB row into (symbol, position); a
\* row is not iterable, so with at least one OPEN row the statement raises
\* TypeError outside the try of the loop body, before anything is closed.
\* With no OPEN row the loop is empty and 0 is returned.
close_all_positions(st) ==
    IF OpenIdx(st.positions) = {}
    THEN [st |-> st, outcome |-> "returned", count |-> 0]
    ELSE [st |-> st, outcome |-> "raised", count |-> 0]

\* ------------------------------------------------------------- strategies
\* self.strategies, in 1/100 of a percent (max_hold_time in seconds).
buy_threshold == 100
sell_threshold == -80
stop_loss == -200
take_profit == 300
oversold_threshold == -300
overbought_threshold == 400
volatility_threshold == 200
breakout_threshold == 100
min_gain == 30
max_hold_time == 300

Min(a, b) == IF a <= b THEN a ELSE b
Abs(a) == IF a >= 0 THEN a ELSE -a

\* x / b * 100 > k, for money amounts x >= 0 and b # 0
PercentAbove(x, b, k) == IF b > 0 THEN x * 100 > k * b ELSE x * 100 < k * b

\* The exposure gate always open.
ExposureUnchecked(st, s) == TRUE

\* _check_risk_exposure (the caller has established balance # 0)
check_risk_exposure(st, s) ==
    LET total_exposure == Exposure(st.positions, OpenIdx(st.positions))
        symbol_exposure == Exposure(st.positions, OpenIdxOf(st.positions, s))
    IN
    IF PercentAbove(total_exposure, st.balance, 90) THEN FALSE
    ELSE IF PercentAbove(symbol_exposure, st.balance, 4) THEN FALSE
    ELSE TRUE

\* floor(b * k / d) for b >= 0, computed without leaving 32 bits
Fraction(b, k, d) == (b \div d) * k + ((b % d) * k) \div d

\* The last clamp left out.
NoCeilingClamp(size, price, bal) == size

\* The last clamp of _calculate_position_size: never more than 2% of balance.
CeilingClamp(size, price, bal) ==
    LET max_position_value == Fraction(bal, 2, 100) IN
    IF size * price > max_position_value
    THEN max_position_value \div price
    ELSE size

\* _calculate_position_size returning the 2% ceiling itself.
calculate_position_size_ceiling(st, rk, price, s) ==
    Fraction(st.balance, 2, 100) \div price

\* _calculate_position_size
calculate_position_size(st, rk, price, s) ==
    LET open_positions == Cardinality(OpenIdx(st.positions))
        total_exposure == Exposure(st.positions, OpenIdx(st.positions))
        available_balance == st.balance - total_exposure
        risk_amount == Fraction(st.balance, rk.risk_per_trade, 10000)
        position_size == risk_amount \div price
        conservative_size == (position_size * rk.position_sizing_multiplier) \div 100
        symbol_exposure == Exposure(st.positions, OpenIdxOf(st.positions, s))
        max_symbol_risk == Fraction(st.balance, rk.max_risk_per_symbol, 10000)
        position_cost == conservative_size * price
        fitted == IF position_cost > available_balance
                  THEN available_balance \div price
                  ELSE conservative_size
    IN
    IF open_positions >= rk.max_concurrent_positions THEN 0
    ELSE IF available_balance <= 0 THEN 0
    ELSE IF symbol_exposure + conservative_size * price > max_symbol_risk THEN 0
    ELSE CeilingClamp(fitted, price, st.balance)

\* The ZeroDivisionError of the strategies for a symbol without position:
\* _check_risk_exposure divides by the balance; _calculate_position_size,
\* called for the BUY of momentum or mean reversion, divides by the price
\* once past its two early returns. (A price of 0 is what fetch_market_data
\* stores for a reply without 'usd'. The two strategies that divide by
\* prices of the history need 5 observations and more; price histories that
\* long hold no 0 in the specifications below.)
StrategiesRaise(st, rk, s, d) ==
    /\ FirstOpen(st.positions, s) = 0
    /\ \/ st.balance = 0
       \/ /\ d.price = 0
          /\ check_risk_exposure(st, s)
          /\ d.change_24h > buy_threshold \/ d.change_24h < oversold_threshold
          /\ Cardinality(OpenIdx(st.positions)) < rk.max_concurrent_positions
          /\ st.balance - Exposure(st.positions, OpenIdx(st.positions)) > 0

\* _analyze_momentum: a sequence holding the signal, or empty for None
analyze_momentum(st, rk, s, d, i, t) ==
    IF i = 0
    THEN IF ~check_risk_exposure(st, s) THEN <<>>
         ELSE IF d.change_24h > buy_threshold
         THEN <<Signal(s, "BUY", d.price, calculate_position_size(st, rk, d.price, s),
                       t, "MOMENTUM", Min(Abs(d.change_24h) * 2, 950))>>
         ELSE <<>>
    ELSE IF d.change_24h < sell_threshold
         THEN <<Signal(s, "SELL", d.price, st.positions[i].quantity, t, "MOMENTUM",
                       Min(Abs(d.change_24h) * 2, 950))>>
         ELSE <<>>

\* _analyze_mean_reversion
analyze_mean_reversion(st, rk, s, d, i, t) ==
    IF i = 0
    THEN IF ~check_risk_exposure(st, s) THEN <<>>
         ELSE IF d.change_24h < oversold_threshold
         THEN <<Signal(s, "BUY", d.price, calculate_position_size(st, rk, d.price, s),
                       t, "MEAN_REVERSION", Min(Abs(d.change_24h), 850))>>
         ELSE <<>>
    ELSE IF d.change_24h > overbought_threshold
         THEN <<Signal(s, "SELL", d.price, st.positions[i].quantity, t,
                       "MEAN_REVERSION", Min(Abs(d.change_24h), 850))>>
         ELSE <<>>

RECURSIVE SeqSum(_)
SeqSum(q) == IF q = <<>> THEN 0 ELSE Head(q) + SeqSum(Tail(q))

\* prices[-k:]
LastK(q, k) == IF Len(q) <= k THEN q ELSE SubSeq(q, Len(q) - k + 1, Len(q))

\* floor of the square root of n, known to lie in lo..(hi - 1)
RECURSIVE SqrtIn(_, _, _)
SqrtIn(n, lo, hi) ==
    IF hi - lo <= 1 THEN lo
    ELSE LET mid == (lo + hi) \div 2 IN
         IF mid * mid <= n THEN SqrtIn(n, mid, hi) ELSE SqrtIn(n, lo, mid)

Sqrt(n) == SqrtIn(n, 0, 46341)

\* _analyze_volatility_breakout. With S the sum of the last 10 prices and
\* D the sum of (10 p - S)^2, variance = D / 1000 and mean = S / 10, so
\* volatility_percent = 100 sqrt(D / 10) / S.
analyze_volatility_breakout(st, rk, s, d, i, h, t) ==
    IF Len(h) < 10 THEN <<>>
    ELSE
      LET recent_prices == LastK(h, 10)
          S == SeqSum(recent_prices)
          D == SeqSum([k \in 1..10 |-> (10 * recent_prices[k] - S) * (10 * recent_prices[k] - S)])
          volatility_percent == (Sqrt(D * 1000) * 100) \div S
          prev == h[Len(h) - 1]
      IN
      IF i # 0 THEN <<>>
      ELSE IF ~(D * 250 > S * S) THEN <<>>
      ELSE IF ~((d.price - prev) * 10000 > breakout_threshold * prev) THEN <<>>
      ELSE IF ~check_risk_exposure(st, s) THEN <<>>
      ELSE <<Signal(s, "BUY", d.price, calculate_position_size(st, rk, d.price, s),
                    t, "VOLATILITY_BREAKOUT", Min(volatility_percent, 800))>>

\* _analyze_scalping
analyze_scalping(st, rk, s, d, i, h, t) ==
    IF Len(h) < 5 THEN <<>>
    ELSE IF i = 0
    THEN LET first == LastK(h, 5)[1] IN
         IF ~((d.price - first) * 10000 > min_gain * first) THEN <<>>
         ELSE IF ~check_risk_exposure(st, s) THEN <<>>
         ELSE <<Signal(s, "BUY", d.price, calculate_position_size(st, rk, d.price, s),
                       t, "SCALPING",
                       Min(((d.price - first) * 50000) \div first, 700))>>
    ELSE IF t - st.positions[i].entry_time > max_hold_time
         THEN <<Signal(s, "SELL", d.price, st.positions[i].quantity, t, "SCALPING", 900)>>
         ELSE <<>>

\* _check_risk_management without the stop loss.
check_risk_management_no_stop(st, s, d, i, t) ==
    LET entry_price == st.positions[i].entry_price
        pnl == (d.price - entry_price) * 10000
    IN
    IF pnl > take_profit * entry_price
    THEN <<Signal(s, "SELL", d.price, st.positions[i].quantity, t, "TAKE_PROFIT", 900)>>
    ELSE <<>>

\* _check_risk_management
check_risk_management(st, s, d, i, t) ==
    LET entry_price == st.positions[i].entry_price
        pnl == (d.price - entry_price) * 10000
    IN
    IF pnl < stop_loss * entry_price
    THEN <<Signal(s, "SELL", d.price, st.positions[i].quantity, t, "STOP_LOSS", 950)>>
    ELSE IF pnl > take_profit * entry_price
    THEN <<Signal(s, "SELL", d.price, st.positions[i].quantity, t, "TAKE_PROFIT", 900)>>
    ELSE <<>>

\* The last of the signals of maximal confidence.
LastBestSignal(sigs) ==
    LET k == CHOOSE j \in DOMAIN sigs :
                 /\ \A m \in DOMAIN sigs : sigs[m].confidence <= sigs[j].confidence
                 /\ \A m \in (j + 1)..Len(sigs) : sigs[m].confidence < sigs[j].confidence
    IN sigs[k]

\* max(strategy_signals, key=confidence): the first of the maximal ones
BestSignal(sigs) ==
    LET k == CHOOSE j \in DOMAIN sigs :
                 /\ \A m \in DOMAIN sigs : sigs[m].confidence <= sigs[j].confidence
                 /\ \A m \in 1..(j - 1) : sigs[m].confidence < sigs[j].confidence
    IN sigs[k]

\* price_history[symbol].append(price), trimmed to max_history_length
RecordPrice(h, price) == LastK(Append(h, price), max_history_length)

\* The body of analyze_market's loop for one symbol, given the recorded
\* history h of the symbol.
StrategySignals(st, rk, s, d, h, t) ==
    LET i == FirstOpen(st.positions, s) IN
    analyze_momentum(st, rk, s, d, i, t)
    \o analyze_mean_reversion(st, rk, s, d, i, t)
    \o analyze_volatility_breakout(st, rk, s, d, i, h, t)
    \o analyze_scalping(st, rk, s, d, i, h, t)
    \o (IF i # 0 THEN check_risk_management(st, s, d, i, t) ELSE <<>>)

\* AnalyzeFrom passing on every signal of the strategies.
RECURSIVE AnalyzeAllFrom(_, _, _, _, _, _, _)
AnalyzeAllFrom(st, rk, md, order, k, acc, t) ==
    IF k > Len(order) \/ acc.raised THEN acc
    ELSE
      LET s == order[k]
          d == md[s][1]
          h == RecordPrice(acc.history[s], d.price)
          hist == [acc.history EXCEPT ![s] = h]
      IN
      IF StrategiesRaise(st, rk, s, d)
      THEN [history |-> hist, signals |-> acc.signals, raised |-> TRUE]
      ELSE
        AnalyzeAllFrom(st, rk, md, order, k + 1,
                       [history |-> hist,
                        signals |-> acc.signals \o StrategySignals(st, rk, s, d, h, t),
                        raised |-> FALSE], t)

\* analyze_market over the symbols of order from position k on. The result
\* holds the price histories, the signals and whether an exception ended
\* the scan.
RECURSIVE AnalyzeFrom(_, _, _, _, _, _, _)
AnalyzeFrom(st, rk, md, order, k, acc, t) ==
    IF k > Len(order) \/ acc.raised THEN acc
    ELSE
      LET s == order[k]
          d == md[s][1]
          h == RecordPrice(acc.history[s], d.price)
          hist == [acc.history EXCEPT ![s] = h]
      IN
      IF StrategiesRaise(st, rk, s, d)
      THEN [history |-> hist, signals |-> acc.signals, raised |-> TRUE]
      ELSE
        LET sigs == StrategySignals(st, rk, s, d, h, t) IN
        AnalyzeFrom(st, rk, md, order, k + 1,
                    [history |-> hist,
                     signals |-> IF sigs = <<>> THEN acc.signals
                                 ELSE Append(acc.signals, BestSignal(sigs)),
                     raised |-> FALSE], t)

analyze_market(st, rk, md, order, hist, t) ==
    AnalyzeFrom(st, rk, md, order, 1,
                [history |-> hist, signals |-> <<>>, raised |-> FALSE], t)

\* ------------------------------------------------------------ PnL refresh
\* _update_position_pnl keeping the price the row holds.
update_position_pnl_stale(pos, md, s) ==
    LET i == FirstOpen(pos, s) IN
    IF i = 0 THEN pos
    ELSE
      LET p == pos[i] IN
      [pos EXCEPT ![i].unrealized_pnl =
                      Round2((p.current_price - p.entry_price) * p.quantity)]

\* _update_position_pnl(symbol) on the rows pos
update_position_pnl(pos, md, s) ==
    LET i == FirstOpen(pos, s) IN
    IF i = 0 THEN pos
    ELSE
      LET cur == IF md[s] # None THEN md[s][1].price ELSE pos[i].current_price
          p == pos[i]
      IN [pos EXCEPT ![i].current_price = cur,
                     ![i].unrealized_pnl =
                         IF p.side = "LONG"
                         THEN Round2((cur - p.entry_price) * p.quantity)
                         ELSE Round2((p.entry_price - cur) * p.quantity)]

\* trading_loop: for row in OPEN rows: _update_position_pnl(row.symbol),
\* from row k on
RECURSIVE RefreshFrom(_, _, _)
RefreshFrom(pos, md, k) ==
    LET rest == {i \in OpenIdx(pos) : i >= k} IN
    IF rest = {} THEN pos
    ELSE LET i == CHOOSE x \in rest : \A y \in rest : x <= y IN
         RefreshFrom(update_position_pnl(pos, md, pos[i].symbol), md, i + 1)

RefreshAll(pos, md) == RefreshFrom(pos, md, 1)

\* ------------------------------------------------------ fetch_market_data
\* What the provider answers: a failure (exception or status other than
\* 200), or data for some of the symbols asked for.
Responses ==
    {[ok |-> FALSE, data |-> [s \in {} |-> 0]]}
    \cup UNION {{[ok |-> TRUE, data |-> f] :
                    f \in {g \in [S -> UNION {Observations(s) : s \in Symbols}] :
                              \A s \in S : g[s] \in Observations(s)}} :
                S \in SUBSET Symbols}

\* The loop of fetch_market_data over symbols_to_fetch from position k on.
RECURSIVE FetchFrom(_, _, _)
FetchFrom(m, resp, k) ==
    IF k > Len(SymOrder) THEN m
    ELSE
      LET s == SymOrder[k] IN
      IF s \notin DOMAIN resp.data THEN FetchFrom(m, resp, k + 1)
      ELSE
        LET d == resp.data[s]
            md == [m.market_data EXCEPT ![s] = Some(d)]
            ord == IF m.market_data[s] = None THEN Append(m.market_order, s)
                   ELSE m.market_order
            i == FirstOpen(m.positions, s)
            pos == IF i = 0 THEN m.positions
                   ELSE update_position_pnl(
                            [m.positions EXCEPT ![i].current_price = d.price], md, s)
        IN FetchFrom([market_data |-> md, market_order |-> ord, positions |-> pos],
                     resp, k + 1)

\* fetch_market_data dropping the stored observations when the fetch fails.
fetch_market_data_dropping(md, ord, pos, resp) ==
    IF ~resp.ok
    THEN [market_data |-> [s \in Symbols |-> None], market_order |-> <<>>,
          positions |-> pos]
    ELSE FetchFrom([market_data |-> md, market_order |-> ord, positions |-> pos],
                   resp, 1)

fetch_market_data(md, ord, pos, resp) ==
    IF ~resp.ok THEN [market_data |-> md, market_order |-> ord, positions |-> pos]
    ELSE FetchFrom([market_data |-> md, market_order |-> ord, positions |-> pos],
                   resp, 1)

\* ---------------------------------------------------------- trading_loop
\* The for loop left at the first execute_trade that ended in its handler.
RECURSIVE ExecuteAllUntilRaise(_, _, _, _)
ExecuteAllUntilRaise(st, sigs, k, t) ==
    IF k > Len(sigs) THEN st
    ELSE LET r == execute_trade(st, sigs[k], t) IN
         IF r.outcome = "sold_trim_failed" THEN r.st
         ELSE ExecuteAllUntilRaise(r.st, sigs, k + 1, t)

\* for signal in signals: self.execute_trade(signal)
RECURSIVE ExecuteAll(_, _, _, _)
ExecuteAll(st, sigs, k, t) ==
    IF k > Len(sigs) THEN st
    ELSE ExecuteAll(execute_trade(st, sigs[k], t).st, sigs, k + 1, t)

\* One iteration of the while loop up to the sleep, for the provider's
\* answer resp at time t. An exception of the analysis skips the execution.
Iteration(st, rk, md, ord, hist, resp, t) ==
    LET f == fetch_market_data(md, ord, st.positions, resp)
        st1 == [st EXCEPT !.positions = RefreshAll(f.positions, f.market_data)]
        a == analyze_market(st1, rk, f.market_data, f.market_order, hist, t)
    IN [st |-> IF a.raised THEN st1 ELSE ExecuteAll(st1, a.signals, 1, t),
        market_data |-> f.market_data,
        market_order |-> f.market_order,
        history |-> a.history,
        signals |-> a.signals,
        raised |-> a.raised]

\* ------------------------------------------------------------------ calls
\* The record of an operation; signals holds the signals an analysis
\* returned, fetched whether the fetch of a cycle got its answer, status the
\* dict get_status returned.
Call(op, s, a, p, q, out, n) ==
    [op |-> op, symbol |-> s, action |-> a, price |-> p, quantity |-> q,
     outcome |-> out, count |-> n, signals |-> <<>>, fetched |-> TRUE,
     status |-> None]

SetStore(st) ==
    /\ balance' = st.balance
    /\ positions' = st.positions
    /\ trades' = st.trades
    /\ position_cooldown' = st.cooldown
    /\ balance_at_open' = st.at_open

\* A direct call bot.execute_trade(signal), the quantity of the signal drawn
\* from qs and its confidence from cs.
ExecuteTrade(qs, cs) ==
    \E s \in CallSymbols, a \in {"BUY", "SELL"}, p \in Prices, q \in qs,
       c \in cs :
        LET r == execute_trade(Store, Signal(s, a, p, q, now, "MANUAL", c), now) IN
        /\ Len(positions) < MaxRows \/ a = "SELL"
        /\ SetStore(r.st)
        /\ call' = Call("execute_trade", s, a, p, q, r.outcome, 0)
        /\ UNCHANGED <<market_data, market_order, price_history, risk, cache,
                       is_running, manually_stopped, loops, stop, now>>

\* A direct call bot.close_all_positions().
CloseAllPositions ==
    LET r == close_all_positions(Store) IN
    /\ SetStore(r.st)
    /\ call' = Call("close_all_positions", "", "", 0, 0, r.outcome, r.count)
    /\ UNCHANGED <<market_data, market_order, price_history, risk, cache,
                   is_running, manually_stopped, loops, stop, now>>

\* ----------------------------------------------------- market-data caches
\* The code that reads or writes self.market_data and
\* self.popular_market_data, by the function it is in. fetch_market_data and
\* analyze_market run in the loop thread, _background_popular_cache and
\* fetch_and_cache_custom in threads of their own, the api_ functions in
\* request threads.
CacheUsers ==
    {"fetch_market_data", "analyze_market", "api_market_data",
     "_background_popular_cache", "fetch_and_cache_custom",
     "api_market_data_progressive"}

\* The users whose access is inside `with self.market_data_lock`.
Locks(u) ==
    u \in {"_background_popular_cache", "fetch_and_cache_custom",
           "api_market_data_progressive"}

\* The users that store entries; the others read.
Writes(u) ==
    u \in {"fetch_market_data", "_background_popular_cache",
           "fetch_and_cache_custom"}

\* The caches a user touches.
Touches(u) ==
    IF u = "_background_popular_cache" THEN {"popular_market_data"}
    ELSE IF u = "api_market_data_progressive"
    THEN {"popular_market_data", "market_data"}
    ELSE {"market_data"}

\* The users that are steps of one thread, trading_loop.
LoopUsers == {"fetch_market_data", "analyze_market"}

\* No user is at a cache and the lock is free; done counts the symbols a
\* busy user has read or written.
IdleCache ==
    [lock |-> "", at |-> [u \in CacheUsers |-> [pc |-> "idle", done |-> 0]]]

\* ------------------------------------------------- start, stop, the loop
\* A loop thread: none (no thread), spawned (started by api_start, about to
\* call start_trading), passed (past the test of start_trading), flagged
\* (has set is_running), loop (in trading_loop: in asyncio.sleep for another
\* sleep seconds, at the while test when sleep is 0).
Idle == [pc |-> "none", sleep |-> 0]

\* The threads differ by their position only: the table of the threads is
\* kept ordered by position, the threads furthest in their run first.
Progress(th) ==
    (CASE th.pc = "none" -> 0
       [] th.pc = "spawned" -> 1
       [] th.pc = "passed" -> 2
       [] th.pc = "flagged" -> 3
       [] th.pc = "loop" -> 4) * (trading_interval + 1) + th.sleep

Ordered(l) == SortSeq(l, LAMBDA a, b : Progress(a) > Progress(b))

\* start_trading testing is_running alone.
start_trading_unguarded(run, ms) ==
    IF ~run
    THEN [is_running |-> TRUE, manually_stopped |-> FALSE, enters |-> TRUE]
    ELSE [is_running |-> run, manually_stopped |-> ms, enters |-> FALSE]

\* start_trading: what it makes of is_running and manually_stopped, and
\* whether it enters trading_loop.
start_trading(run, ms) ==
    IF ~run /\ ~ms
    THEN [is_running |-> TRUE, manually_stopped |-> FALSE, enters |-> TRUE]
    ELSE [is_running |-> run, manually_stopped |-> ms, enters |-> FALSE]

\* api_start: resets manually_stopped and starts a thread on start_trading,
\* unless the bot is running.
ApiStart ==
    /\ \/ /\ ~is_running
          /\ \E t \in Threads :
                /\ loops[t].pc = "none"
                /\ \A u \in 1..(t - 1) : loops[u].pc # "none"
                /\ loops' = Ordered([loops EXCEPT ![t] = [pc |-> "spawned", sleep |-> 0]])
          /\ manually_stopped' = FALSE
          /\ call' = Call("api_start", "", "", 0, 0, "started", 0)
       \/ /\ is_running
          /\ UNCHANGED <<loops, manually_stopped>>
          /\ call' = Call("api_start", "", "", 0, 0, "already_running", 0)
    /\ UNCHANGED <<balance, positions, trades, position_cooldown, market_data,
                   market_order, price_history, risk, cache, is_running, stop, now,
                   balance_at_open>>

\* The thread of api_start runs start_trading, one statement at a time. The
\* test of is_running and manually_stopped: the thread goes on to the
\* assignments or returns.
StartTrading(t) ==
    LET r == start_trading(is_running, manually_stopped) IN
    /\ loops[t].pc = "spawned"
    /\ loops' = Ordered([loops EXCEPT ![t] = IF r.enters THEN [pc |-> "passed", sleep |-> 0]
                                     ELSE Idle])
    /\ call' = Call("start_trading", "", "", 0, 0,
                    IF r.enters THEN "passed"
                    ELSE IF manually_stopped THEN "manually_stopped"
                    ELSE "already_running", 0)
    /\ UNCHANGED <<balance, positions, trades, position_cooldown, market_data,
                   market_order, price_history, risk, cache, is_running,
                   manually_stopped, stop, now, balance_at_open>>

\* self.is_running = True, by a thread that passed the test.
StartSetRunning(t) ==
    /\ loops[t].pc = "passed"
    /\ is_running' = TRUE
    /\ loops' = Ordered([loops EXCEPT ![t] = [pc |-> "flagged", sleep |-> 0]])
    /\ call' = Call("start_trading", "", "", 0, 0, "set_running", 0)
    /\ UNCHANGED <<balance, positions, trades, position_cooldown, market_data,
                   market_order, price_history, risk, cache, manually_stopped, stop,
                   now, balance_at_open>>

\* self.manually_stopped = False; asyncio.run(self.trading_loop()): the
\* thread is at the while test of trading_loop.
StartEnterLoop(t) ==
    /\ loops[t].pc = "flagged"
    /\ manually_stopped' = FALSE
    /\ loops' = Ordered([loops EXCEPT ![t] = [pc |-> "loop", sleep |-> 0]])
    /\ call' = Call("start_trading", "", "", 0, 0, "started", 0)
    /\ UNCHANGED <<balance, positions, trades, position_cooldown, market_data,
                   market_order, price_history, risk, cache, is_running, stop, now,
                   balance_at_open>>

\* while self.is_running: one iteration, then asyncio.sleep; the provider
\* answers with one of resps.
CycleOn(t, resps) ==
    /\ loops[t].pc = "loop"
    /\ loops[t].sleep = 0
    /\ is_running
    /\ \A s \in Symbols : Len(price_history[s]) < MaxHist
    /\ \E resp \in resps :
        LET r == Iteration(Store, risk, market_data, market_order,
                           price_history, resp, now) IN
        /\ SetStore(r.st)
        /\ market_data' = r.market_data
        /\ market_order' = r.market_order
        /\ price_history' = r.history
        /\ call' = [Call("cycle", "", "", 0, 0,
                         IF r.raised THEN "raised" ELSE "ok", Len(r.signals))
                        EXCEPT !.signals = r.signals, !.fetched = resp.ok]
    /\ loops' = Ordered([loops EXCEPT ![t] = [pc |-> "loop",
                                      sleep |-> trading_interval]])
    /\ UNCHANGED <<risk, cache, is_running, manually_stopped, stop, now>>

Cycle(t) == CycleOn(t, Responses)

\* The while test finds is_running false: trading_loop and its thread end.
LoopExit(t) ==
    /\ loops[t].pc = "loop"
    /\ loops[t].sleep = 0
    /\ ~is_running
    /\ loops' = Ordered([loops EXCEPT ![t] = Idle])
    /\ call' = Call("loop_exit", "", "", 0, 0, "", 0)
    /\ UNCHANGED <<balance, positions, trades, position_cooldown, market_data,
                   market_order, price_history, risk, cache, is_running,
                   manually_stopped, stop, now, balance_at_open>>

\* stop_trading with the flag set before the liquidation.
StopOrderFlagFirst == <<"set_running", "liquidate", "set_manual">>

\* The statements of stop_trading in program order.
StopOrder == <<"liquidate", "set_running", "set_manual">>

\* api_stop -> stop_trading, one statement at a time: stop.pc statements of
\* StopOrder are done. An exception of close_all_positions ends the call.
StopTrading ==
    LET step == StopOrder[stop.pc + 1]
        last == stop.pc + 1 = Len(StopOrder)
        r == close_all_positions(Store)
        failed == step = "liquidate" /\ r.outcome = "raised"
    IN
    /\ SetStore(IF step = "liquidate" THEN r.st ELSE Store)
    /\ is_running' = IF step = "set_running" THEN FALSE ELSE is_running
    /\ manually_stopped' = IF step = "set_manual" THEN TRUE ELSE manually_stopped
    /\ stop' = IF failed \/ last THEN [pc |-> 0, liquidated |-> FALSE]
               ELSE [pc |-> stop.pc + 1,
                     liquidated |-> stop.liquidated \/ step = "liquidate"]
    /\ call' = Call("stop_trading", "", "", 0, 0,
                    IF failed THEN "raised" ELSE step,
                    IF last /\ ~failed THEN 1 ELSE 0)
    /\ UNCHANGED <<market_data, market_order, price_history, risk, cache, loops, now>>

\* Time passes: the clock advances by step seconds, up to until, and the
\* sleeping loops get nearer to their wake-up.
Tick(step, until) ==
    /\ now + step <= until
    /\ now' = now + step
    /\ loops' = Ordered([t \in Threads |->
                    [loops[t] EXCEPT !.sleep = IF @ > step THEN @ - step ELSE 0]])
    /\ call' = Call("tick", "", "", 0, 0, "", 0)
    /\ UNCHANGED <<balance, positions, trades, position_cooldown, market_data,
                   market_order, price_history, risk, cache, is_running,
                   manually_stopped, stop, balance_at_open>>

DefaultRisk ==
    [risk_per_trade |-> risk_per_trade,
     max_risk_per_symbol |-> max_risk_per_symbol,
     max_concurrent_positions |-> max_concurrent_positions,
     position_sizing_multiplier |-> position_sizing_multiplier]

\* TradingBot.__init__ on a fresh database.
Init ==
    /\ balance = InitialBalance
    /\ positions = <<>>
    /\ trades = <<>>
    /\ position_cooldown = [s \in Symbols |-> None]
    /\ market_data = [s \in Symbols |-> None]
    /\ market_order = <<>>
    /\ price_history = [s \in Symbols |-> <<>>]
    /\ risk = DefaultRisk
    /\ cache = IdleCache
    /\ is_running = FALSE
    /\ manually_stopped = FALSE
    /\ loops = [t \in Threads |-> Idle]
    /\ stop = [pc |-> 0, liquidated |-> FALSE]
    /\ now = 0
    /\ balance_at_open = <<>>
    /\ call = Call("init", "", "", 0, 0, "", 0)

\* The bot after api_start and start_trading: one loop at its while test.
InitRunning ==
    /\ balance = InitialBalance
    /\ positions = <<>>
    /\ trades = <<>>
    /\ position_cooldown = [s \in Symbols |-> None]
    /\ market_data = [s \in Symbols |-> None]
    /\ market_order = <<>>
    /\ price_history = [s \in Symbols |-> <<>>]
    /\ risk = DefaultRisk
    /\ cache = IdleCache
    /\ is_running = TRUE
    /\ manually_stopped = FALSE
    /\ loops = [t \in Threads |-> IF t = 1 THEN [pc |-> "loop", sleep |-> 0] ELSE Idle]
    /\ stop = [pc |-> 0, liquidated |-> FALSE]
    /\ now = 0
    /\ balance_at_open = <<>>
    /\ call = Call("init", "", "", 0, 0, "", 0)

\* The deployed program: the control surface, the loop threads, the clock.
\* The clock is observed once per cooldown window; every such step ends the
\* sleep of the loops.
Next ==
    \/ ApiStart
    \/ \E t \in Threads : StartTrading(t)
    \/ \E t \in Threads : StartSetRunning(t)
    \/ \E t \in Threads : StartEnterLoop(t)
    \/ \E t \in Threads : Cycle(t)
    \/ \E t \in Threads : LoopExit(t)
    \/ StopTrading
    \/ Tick(min_hold_time, MaxTime)

Spec == Init /\ [][Next]_vars

\* The running bot with its public operations called directly between the
\* cycles of its loop. The clock is observed once per trading interval.
NextCalls ==
    \/ ExecuteTrade(Quantities, Confidences)
    \/ CloseAllPositions
    \/ Cycle(1)
    \/ Tick(trading_interval, MaxTime)

SpecCalls == InitRunning /\ [][NextCalls]_vars

\* The same over a longer time, the clock observed once per cooldown
\* window: positions are opened, closed and opened again.
NextLife ==
    \/ ExecuteTrade({UnitsPerDollar}, {950})
    \/ CloseAllPositions
    \/ Cycle(1)
    \/ Tick(min_hold_time, MaxWindows * min_hold_time)

SpecLife == InitRunning /\ [][NextLife]_vars

\* ---------------------------------------------------------- risk settings
\* The values posted for max_concurrent_positions: one below the number of
\* assets, and the value of __init__.
PostedLimits == {1, max_concurrent_positions}

\* api_update_risk_settings with {'max_concurrent_positions': n}.
ApiUpdateRiskSettings ==
    /\ \E n \in PostedLimits :
          /\ n # risk.max_concurrent_positions
          /\ risk' = [risk EXCEPT !.max_concurrent_positions = n]
          /\ call' = Call("api_update_risk_settings", "", "", 0, n, "ok", 0)
    /\ UNCHANGED <<balance, positions, trades, position_cooldown, market_data,
                   market_order, price_history, is_running, manually_stopped,
                   loops, stop, now, cache, balance_at_open>>

\* The running bot cycling while its position limit is changed.
NextRisk ==
    \/ ApiUpdateRiskSettings
    \/ Cycle(1)
    \/ Tick(trading_interval, MaxTime)

SpecRisk == InitRunning /\ [][NextRisk]_vars

\* The position limit posted while the bot holds no OPEN position.
ApiUpdateRiskSettingsFlat ==
    /\ OpenIdx(positions) = {}
    /\ ApiUpdateRiskSettings

\* The running bot cycling under a position limit that is set while it is
\* flat.
NextLimit ==
    \/ ApiUpdateRiskSettingsFlat
    \/ Cycle(1)
    \/ Tick(trading_interval, MaxTime)

SpecLimit == InitRunning /\ [][NextLimit]_vars

\* ------------------------------------------------------- a falling market
\* The provider reports bitcoin below, at and above 100, with 24h changes
\* below sell_threshold as well as above buy_threshold.
FallingObservations == [price : {96, 100, 104}, change_24h : {-500, 0, 200}]

FallingResponses ==
    {[ok |-> FALSE, data |-> [s \in {} |-> 0]]}
    \cup {[ok |-> TRUE, data |-> [s \in {"bitcoin"} |-> o]] :
             o \in FallingObservations}
    \cup {[ok |-> TRUE,
           data |-> [s \in Symbols |->
                        IF s = "bitcoin" THEN o
                        ELSE [price |-> 100, change_24h |-> 200]]] :
             o \in FallingObservations}

\* The running bot cycling through a falling market.
NextFalling ==
    \/ CycleOn(1, FallingResponses)
    \/ Tick(trading_interval, MaxTime)

SpecFalling == InitRunning /\ [][NextFalling]_vars

\* ------------------------------------------------- a stop beside the loop
\* One loop thread cycling while a request thread runs stop_trading.
NextHalt ==
    \/ Cycle(1)
    \/ StopTrading
    \/ LoopExit(1)
    \/ Tick(min_hold_time, MaxTime)

SpecHalt == InitRunning /\ [][NextHalt]_vars

\* --------------------------------------------------- the loop after a stop
\* api_start while no start_trading thread is past its test and no stop has
\* set its flags: the start requests that are not restarts.
ApiStartFirst ==
    /\ \A t \in Threads : loops[t].pc \in {"none", "spawned"}
    /\ ~manually_stopped
    /\ stop.pc # 2
    /\ ApiStart

\* The provider is unreachable: every fetch fails.
DownResponses == {r \in Responses : ~r.ok}

\* Past MaxTime the clock is no longer followed; the sleeps still end.
WakeAtHorizon ==
    /\ now + trading_interval > MaxTime
    /\ \E t \in Threads : loops[t].sleep > 0
    /\ loops' = Ordered([t \in Threads |-> [loops[t] EXCEPT !.sleep = 0]])
    /\ call' = Call("wake", "", "", 0, 0, "", 0)
    /\ UNCHANGED <<balance, positions, trades, position_cooldown, market_data,
                   market_order, price_history, risk, cache, is_running,
                   manually_stopped, stop, now, balance_at_open>>

\* The control surface without restarts, the start_trading threads, the
\* loops and the clock, while the provider is unreachable.
NextStopping ==
    \/ ApiStartFirst
    \/ \E t \in Threads : StartTrading(t)
    \/ \E t \in Threads : StartSetRunning(t)
    \/ \E t \in Threads : StartEnterLoop(t)
    \/ \E t \in Threads : CycleOn(t, DownResponses)
    \/ \E t \in Threads : LoopExit(t)
    \/ StopTrading
    \/ Tick(trading_interval, MaxTime)
    \/ WakeAtHorizon

\* Every thread gets to run its next statement, every sleep ends and a
\* stop_trading call runs to its end.
SpecStopping ==
    /\ Init
    /\ [][NextStopping]_vars
    /\ WF_vars(\E t \in Threads : StartTrading(t))
    /\ WF_vars(\E t \in Threads : StartSetRunning(t))
    /\ WF_vars(\E t \in Threads : StartEnterLoop(t))
    /\ WF_vars(\E t \in Threads : CycleOn(t, DownResponses))
    /\ WF_vars(\E t \in Threads : LoopExit(t))
    /\ WF_vars(stop.pc # 0 /\ StopTrading)
    /\ WF_vars(Tick(trading_interval, MaxTime))
    /\ WF_vars(WakeAtHorizon)

\* ------------------------------------------------------------- get_status
\* get_status on the rows pos: the rows after its PnL refresh and the
\* entries of the dict it returns. The sum for total_realized_pnl runs over
\* the rows filtered by status='OPEN', as the sum for total_unrealized_pnl
\* does; `p.realized_pnl or 0` is 0 for the None of an OPEN row.
get_status(pos, md) ==
    LET rows == RefreshAll(pos, md)
        total_realized_pnl ==
            SumOver([i \in DOMAIN rows |->
                        IF rows[i].realized_pnl = None THEN 0
                        ELSE rows[i].realized_pnl[1]], OpenIdx(rows))
        total_unrealized_pnl ==
            SumOver([i \in DOMAIN rows |-> rows[i].unrealized_pnl], OpenIdx(rows))
    IN [positions |-> rows,
        open_positions |-> Cardinality(OpenIdx(rows)),
        total_realized_pnl |-> total_realized_pnl,
        total_unrealized_pnl |-> total_unrealized_pnl,
        total_pnl |-> total_realized_pnl + total_unrealized_pnl]

\* api_status -> get_status.
GetStatus ==
    LET r == get_status(positions, market_data) IN
    /\ positions' = r.positions
    /\ call' = [Call("get_status", "", "", 0, 0, "ok", 0)
                    EXCEPT !.status = Some([k \in DOMAIN r \ {"positions"} |-> r[k]])]
    /\ UNCHANGED <<balance, trades, position_cooldown, market_data,
                   market_order, price_history, risk, cache, is_running,
                   manually_stopped, loops, stop, now, balance_at_open>>

\* The bot trading, by its loop and by direct calls, with its status asked
\* for.
NextStatus ==
    \/ ExecuteTrade({UnitsPerDollar}, {950})
    \/ Cycle(1)
    \/ GetStatus
    \/ Tick(min_hold_time, MaxWindows * min_hold_time)

SpecStatus == InitRunning /\ [][NextStatus]_vars

\* ------------------------------------------------- readers and writers
\* api_clear_trades: session.query(TradeDB).delete() and commit.
ApiClearTrades ==
    /\ trades' = <<>>
    /\ call' = Call("api_clear_trades", "", "", 0, 0, "ok", 0)
    /\ UNCHANGED <<balance, positions, position_cooldown, market_data,
                   market_order, price_history, risk, cache, is_running,
                   manually_stopped, loops, stop, now, balance_at_open>>

\* analyze_market carrying out the signals it returns.
AnalyzeMarketExecuting ==
    LET a == analyze_market(Store, risk, market_data, market_order,
                            price_history, now) IN
    /\ \A s \in Symbols : Len(price_history[s]) < MaxHist
    /\ price_history' = a.history
    /\ SetStore(ExecuteAll(Store, a.signals, 1, now))
    /\ call' = [Call("analyze_market", "", "", 0, 0,
                     IF a.raised THEN "raised" ELSE "ok", Len(a.signals))
                EXCEPT !.signals = a.signals]
    /\ UNCHANGED <<market_data, market_order, risk, cache, is_running,
                   manually_stopped, loops, stop, now>>

\* A call bot.analyze_market() between the cycles of the loop, on the
\* observations the last fetch stored.
AnalyzeMarketCall ==
    LET a == analyze_market(Store, risk, market_data, market_order,
                            price_history, now) IN
    /\ \A s \in Symbols : Len(price_history[s]) < MaxHist
    /\ price_history' = a.history
    /\ call' = [Call("analyze_market", "", "", 0, 0,
                     IF a.raised THEN "raised" ELSE "ok", Len(a.signals))
                EXCEPT !.signals = a.signals]
    /\ UNCHANGED <<balance, positions, trades, position_cooldown, market_data,
                   market_order, risk, cache, is_running, manually_stopped, loops,
                   stop, now, balance_at_open>>

\* The running bot with every operation that reads or writes the trading
\* state called between the cycles of its loop.
NextFrame ==
    \/ ExecuteTrade({UnitsPerDollar}, {950})
    \/ CloseAllPositions
    \/ Cycle(1)
    \/ AnalyzeMarketCall
    \/ GetStatus
    \/ ApiClearTrades
    \/ Tick(min_hold_time, MaxWindows * min_hold_time)

SpecFrame == InitRunning /\ [][NextFrame]_vars

\* ------------------------------------------------ the caches, concurrently
CacheFrame ==
    UNCHANGED <<balance, positions, trades, position_cooldown, market_data,
                market_order, price_history, risk, is_running,
                manually_stopped, loops, stop, now, balance_at_open>>

\* A user reaches its loop over the symbols: it takes market_data_lock
\* first if its access is inside the with statement, and waits while the
\* lock is held.
CacheEnter(u) ==
    /\ cache.at[u].pc = "idle"
    /\ Locks(u) => cache.lock = ""
    /\ u \in LoopUsers => \A v \in LoopUsers : cache.at[v].pc = "idle"
    /\ cache' = [lock |-> IF Locks(u) THEN u ELSE cache.lock,
                 at |-> [cache.at EXCEPT ![u] = [pc |-> "busy", done |-> 0]]]
    /\ call' = Call("cache_enter", u, "", 0, 0, "", 0)
    /\ CacheFrame

\* The user reads or writes the entry of the next symbol.
CacheStep(u) ==
    /\ cache.at[u].pc = "busy"
    /\ cache.at[u].done < Len(SymOrder)
    /\ cache' = [cache EXCEPT !.at[u].done = @ + 1]
    /\ call' = Call("cache_step", u, "", 0, 0, "", 0)
    /\ CacheFrame

\* The user is through with the symbols and leaves, releasing the lock it
\* took.
CacheLeave(u) ==
    /\ cache.at[u].pc = "busy"
    /\ cache.at[u].done = Len(SymOrder)
    /\ cache' = [lock |-> IF Locks(u) THEN "" ELSE cache.lock,
                 at |-> [cache.at EXCEPT ![u] = [pc |-> "idle", done |-> 0]]]
    /\ call' = Call("cache_leave", u, "", 0, 0, "", 0)
    /\ CacheFrame

NextCache ==
    \E u \in CacheUsers :
        \/ CacheEnter(u)
        \/ CacheStep(u)
        \/ CacheLeave(u)

SpecCache == Init /\ [][NextCache]_vars

\* ------------------------------------------------------- a long history
\* An OPEN position of q units of s entered at price p at time 0.
Held(s, p, q) == NewPosition(Signal(s, "BUY", p, q, 0, "MANUAL", 0))

\* A round trip of the past: one coin of ethereum bought at 100 and sold at
\* 104, and its Trade.
PastPosition(k) ==
    [symbol |-> "ethereum", side |-> "LONG", entry_price |-> 100,
     quantity |-> UnitsPerDollar, entry_time |-> -2 * min_hold_time,
     current_price |-> 104, unrealized_pnl |-> 4 * UnitsPerDollar,
     status |-> "CLOSED", exit_price |-> Some(104),
     exit_time |-> Some(-min_hold_time),
     realized_pnl |-> Some(4 * UnitsPerDollar)]

PastTrade(k) ==
    [trade_id |-> k, symbol |-> "ethereum", side |-> "SELL", price |-> 104,
     quantity |-> UnitsPerDollar, timestamp |-> -min_hold_time,
     strategy |-> "TAKE_PROFIT", pnl |-> 4 * UnitsPerDollar]

\* TradingBot.__init__ and start on a database that holds max_trades_history
\* round trips and one OPEN position: the rows are read back, the cooldown
\* table and the market data start empty.
InitHistory ==
    /\ balance = InitialBalance + max_trades_history * 4 * UnitsPerDollar
                    - 100 * UnitsPerDollar
    /\ positions = [k \in 1..(max_trades_history + 1) |->
                       IF k <= max_trades_history THEN PastPosition(k)
                       ELSE Held("bitcoin", 100, UnitsPerDollar)]
    /\ trades = [k \in 1..max_trades_history |-> PastTrade(k)]
    /\ position_cooldown = [s \in Symbols |-> None]
    /\ market_data = [s \in Symbols |-> None]
    /\ market_order = <<>>
    /\ price_history = [s \in Symbols |-> <<>>]
    /\ risk = DefaultRisk
    /\ cache = IdleCache
    /\ is_running = TRUE
    /\ manually_stopped = FALSE
    /\ loops = [t \in Threads |-> IF t = 1 THEN [pc |-> "loop", sleep |-> 0] ELSE Idle]
    /\ stop = [pc |-> 0, liquidated |-> FALSE]
    /\ now = 0
    /\ balance_at_open = [k \in 1..(max_trades_history + 1) |->
                             InitialBalance + (k - 1) * 4 * UnitsPerDollar]
    /\ call = Call("init", "", "", 0, 0, "", 0)

SpecHistory == InitHistory /\ [][NextLife]_vars

\* ------------------------------------------------- failing iterations
\* The provider's answers to the bot with the long history: bitcoin at its
\* entry price or at a profit, ethereum rising; either may come without a
\* 'usd' entry (stored as price 0) while rising; ethereum may be absent.
FaultObservations(s) ==
    IF s = "bitcoin"
    THEN {[price |-> p, change_24h |-> 0] : p \in Prices}
         \cup {[price |-> 0, change_24h |-> 200]}
    ELSE {[price |-> q, change_24h |-> 200] : q \in {0, 100}}

FaultResponses ==
    {[ok |-> FALSE, data |-> [s \in {} |-> 0]]}
    \cup {[ok |-> TRUE, data |-> [s \in {"bitcoin"} |-> o]] :
             o \in FaultObservations("bitcoin")}
    \cup {[ok |-> TRUE,
           data |-> [s \in Symbols |-> IF s = "bitcoin" THEN o ELSE e]] :
             o \in FaultObservations("bitcoin"),
             e \in FaultObservations("ethereum")}

\* The loop of the bot with the long history, beside api_stop.
NextFaults ==
    \/ CycleOn(1, FaultResponses)
    \/ LoopExit(1)
    \/ StopTrading
    \/ Tick(trading_interval, MaxTime)

SpecFaults == InitHistory /\ [][NextFaults]_vars

\* ---------------------------------------------------------- analyze_market
\* The inputs of one analysis. The store: a fresh bot; a bot holding one
\* coin of bitcoin; a bot that put 95% of its balance into ethereum.
AnalyzeStores ==
    {[balance |-> InitialBalance, positions |-> <<>>],
     [balance |-> InitialBalance - 100 * UnitsPerDollar,
      positions |-> <<Held("bitcoin", 100, UnitsPerDollar)>>],
     [balance |-> InitialBalance - 9500 * UnitsPerDollar,
      positions |-> <<Held("ethereum", 100, 95 * UnitsPerDollar)>>]}

\* The time of the analysis: within max_hold_time of the entries, and past it.
AnalyzeTimes == {min_hold_time, max_hold_time + min_hold_time}

\* The observations of bitcoin: around an entry at 100, with 24h changes on
\* both sides of every threshold of the strategies.
AnalyzeObservations ==
    [price : {96, 100, 104}, change_24h : {-500, -100, 0, 200, 500}]

\* The prices recorded before the analysis: none, four quiet ones, nine
\* volatile ones.
AnalyzeHistories ==
    {<<>>,
     <<100, 100, 100, 100>>,
     <<90, 110, 90, 110, 90, 110, 90, 110, 100>>}

InitAnalyze ==
    /\ \E st \in AnalyzeStores :
          /\ balance = st.balance
          /\ positions = st.positions
          /\ balance_at_open = [i \in DOMAIN st.positions |-> InitialBalance]
    /\ trades = <<>>
    /\ position_cooldown = [s \in Symbols |-> None]
    /\ \E d \in AnalyzeObservations, e \in {None, Some([price |-> 100, change_24h |-> 200])} :
          market_data = [s \in Symbols |-> IF s = "bitcoin" THEN Some(d) ELSE e]
    /\ market_order \in {<<"bitcoin">>, <<"bitcoin", "ethereum">>, <<"ethereum", "bitcoin">>}
    /\ \A s \in Symbols : market_data[s] # None <=> \E k \in DOMAIN market_order : market_order[k] = s
    /\ \E h \in AnalyzeHistories :
          price_history = [s \in Symbols |-> IF s = "bitcoin" THEN h ELSE <<>>]
    /\ risk = DefaultRisk
    /\ cache = IdleCache
    /\ is_running = TRUE
    /\ manually_stopped = FALSE
    /\ loops = [t \in Threads |-> IF t = 1 THEN [pc |-> "loop", sleep |-> 0] ELSE Idle]
    /\ stop = [pc |-> 0, liquidated |-> FALSE]
    /\ now \in AnalyzeTimes
    /\ call = Call("init", "", "", 0, 0, "", 0)

\* A call bot.analyze_market(): the prices are recorded and the signals
\* returned; call.signals holds them.
AnalyzeMarket ==
    LET a == analyze_market(Store, risk, market_data, market_order,
                            price_history, now) IN
    /\ call.op = "init"
    /\ price_history' = a.history
    /\ call' = [Call("analyze_market", "", "", 0, 0,
                     IF a.raised THEN "raised" ELSE "ok", Len(a.signals))
                EXCEPT !.signals = a.signals]
    /\ UNCHANGED <<balance, positions, trades, position_cooldown, market_data,
                   market_order, risk, cache, is_running, manually_stopped, loops,
                   stop, now, balance_at_open>>

SpecAnalyze == InitAnalyze /\ [][AnalyzeMarket]_vars

\* ------------------------------------------------ _calculate_position_size
\* The inputs of the sizing: balances, existing OPEN positions, prices and
\* risk settings.
SizeBalances == {UnitsPerDollar, 4 * UnitsPerDollar, InitialBalance}
SizePrices == {1, 100, 104}
SizeRisks ==
    [risk_per_trade : {150, 250, 500},
     max_risk_per_symbol : {300, 1000},
     max_concurrent_positions : {1, 8},
     position_sizing_multiplier : {100, 200}]

SizePositions ==
    {<<>>,
     <<Held("ethereum", 100, 1)>>,
     <<Held("bitcoin", 100, 500)>>,
     <<Held("ethereum", 100, 49500)>>,
     <<Held("ethereum", 100, 49500), Held("bitcoin", 104, 1)>>}

InitSize ==
    /\ balance \in SizeBalances
    /\ positions \in SizePositions
    /\ trades = <<>>
    /\ position_cooldown = [s \in Symbols |-> None]
    /\ market_data = [s \in Symbols |-> None]
    /\ market_order = <<>>
    /\ price_history = [s \in Symbols |-> <<>>]
    /\ risk \in SizeRisks
    /\ cache = IdleCache
    /\ is_running = FALSE
    /\ manually_stopped = FALSE
    /\ loops = [t \in Threads |-> Idle]
    /\ stop = [pc |-> 0, liquidated |-> FALSE]
    /\ now = 0
    /\ balance_at_open = [i \in DOMAIN positions |-> balance]
    /\ call = Call("init", "", "", 0, 0, "", 0)

\* A call bot._calculate_position_size(price, symbol); call.quantity is the
\* size returned.
CalculatePositionSize ==
    \E p \in SizePrices, s \in Symbols :
        /\ call' = Call("calculate_position_size", s, "", p,
                        calculate_position_size(Store, risk, p, s), "", 0)
        /\ UNCHANGED <<balance, positions, trades, position_cooldown,
                       market_data, market_order, price_history, risk, cache,
                       is_running, manually_stopped, loops, stop, now,
                       balance_at_open>>

SpecSize == InitSize /\ [][CalculatePositionSize]_vars

\* ================================================================ claims

OpeningNeverOverdraws ==
    /\ balance >= 0
    /\ \A i \in DOMAIN positions :
          positions[i].entry_price * positions[i].quantity <= balance_at_open[i]

\* One cycle has just executed two BUY signals sized against the same balance.
TwoBuysInOneCycle ==
    /\ call.op = "cycle"
    /\ call.count = 2
    /\ \E i, j \in OpenIdx(positions) :
          /\ i < j
          /\ positions[i].entry_time = now
          /\ positions[j].entry_time = now
          /\ positions[i].quantity > 0
          /\ positions[j].quantity > 0
          /\ balance_at_open[j] = balance_at_open[i]
                                    - positions[i].entry_price * positions[i].quantity

\* C3: the size q returned by _calculate_position_size satisfies
\* q * price <= 0.02 * balance.
SizeWithinTwoPercent ==
    call.op = "calculate_position_size"
        => call.quantity * call.price * 100 <= 2 * balance

\* A size was returned for settings whose base size is above 2% of the
\* balance: the ceiling decided it.
CeilingDecidesSize ==
    /\ call.op = "calculate_position_size"
    /\ call.quantity > 0
    /\ risk.risk_per_trade * risk.position_sizing_multiplier > 2 * 100 * 100
    /\ (call.quantity + 1) * call.price * 100 > 2 * balance

\* The position a SELL call for the symbol of c acts on (0: none).
SoldIdx(c) == FirstOpen(positions, c.symbol)

\* (sell_price - entry_price) * quantity of that position
RawPnl(c) ==
    (c.price - positions[SoldIdx(c)].entry_price) * positions[SoldIdx(c)].quantity

IsSell(c) == c.op = "execute_trade" /\ c.action = "SELL"

\* C4, as claimed: a SELL on an asset with an OPEN position where
\* (sell_price - entry_price) * quantity < 0.01 leaves the position, the
\* trades, the balance and the cooldown table unchanged.
SellBelowRawFloorChangesNothing ==
    [][(IsSell(call') /\ SoldIdx(call') # 0 /\ RawPnl(call') < MinProfit)
        => UNCHANGED <<positions, trades, balance, position_cooldown>>]_vars

\* C4, amended: a SELL on an asset with an OPEN position where
\* round((sell_price - entry_price) * quantity, 2) < 0.01 leaves the
\* position, the trades, the balance and the cooldown table unchanged.
SellBelowRoundedFloorChangesNothing ==
    [][(IsSell(call') /\ SoldIdx(call') # 0 /\ Round2(RawPnl(call')) < MinProfit)
        => UNCHANGED <<positions, trades, balance, position_cooldown>>]_vars

\* A SELL has just been turned down by the profit floor and its position is
\* still OPEN.
SellTurnedDownByFloor ==
    /\ IsSell(call)
    /\ call.outcome = "below_floor"
    /\ SoldIdx(call) # 0
    /\ Round2(RawPnl(call)) < MinProfit
    /\ positions[SoldIdx(call)].exit_price = None

\* C5: close_all_positions completes, and a second call right after it
\* completes returning 0 and changes nothing.
CloseAllIsIdempotent ==
    call.op = "close_all_positions"
        => /\ call.outcome = "returned"
           /\ close_all_positions(Store).outcome = "returned"
           /\ close_all_positions(Store).count = 0
           /\ close_all_positions(Store).st = Store

\* The best-known price of position i: the latest observation, else the
\* position's current_price.
BestPrice(i) ==
    IF market_data[positions[i].symbol] # None
    THEN market_data[positions[i].symbol][1].price
    ELSE positions[i].current_price

\* The OPEN positions whose PnL at the best-known price is at least 0.01.
Closable ==
    {i \in OpenIdx(positions) :
        Round2((BestPrice(i) - positions[i].entry_price) * positions[i].quantity)
            >= MinProfit}

\* C6: close_all_positions closes exactly the OPEN positions whose PnL at the
\* best-known price is >= 0.01, credits the balance with price * quantity of
\* each, appends one Trade for each and returns their number.
CloseAllClosesTheProfitable ==
    [][call'.op = "close_all_positions"
        => /\ call'.count = Cardinality(Closable)
           /\ OpenIdx(positions') = OpenIdx(positions) \ Closable
           /\ Len(trades') = Len(trades) + Cardinality(Closable)
           /\ balance' = balance
                + SumOver([i \in DOMAIN positions |->
                              BestPrice(i) * positions[i].quantity], Closable)]_vars

\* C7: while the cooldown of an asset is active, a BUY for it is rejected
\* whatever its confidence: no position is opened and the balance, the trades
\* and the cooldown table stay as they are.
BuyInCooldownIsRejected ==
    [][(/\ call'.op = "execute_trade"
        /\ call'.action = "BUY"
        /\ InCooldown(position_cooldown, call'.symbol, now))
        => /\ call'.outcome = "cooldown"
           /\ UNCHANGED <<positions, balance, trades, position_cooldown>>]_vars

\* A BUY for an asset without OPEN position has just been rejected by the
\* cooldown that the closing of its position recorded.
BuyRejectedByCooldown ==
    /\ call.op = "execute_trade"
    /\ call.action = "BUY"
    /\ call.outcome = "cooldown"
    /\ OpenIdxOf(positions, call.symbol) = {}
    /\ InCooldown(position_cooldown, call.symbol, now)

\* C8: whenever stop_trading has been invoked and has ended, is_running is
\* false and manually_stopped is true.
StopTradingStops ==
    (call.op = "stop_trading" /\ (call.outcome = "raised" \/ call.count = 1))
        => (~is_running /\ manually_stopped)

\* C9: a stop sets is_running to false only after its own liquidation has
\* run to completion.
LiquidationBeforeFlag ==
    (call.op = "stop_trading" /\ call.outcome = "set_running") => stop.liquidated

\* A stop has just set is_running to false while a loop thread is alive.
StopFlagSetUnderLoop ==
    /\ call.op = "stop_trading"
    /\ call.outcome = "set_running"
    /\ ~is_running
    /\ \E t \in Threads : loops[t].pc = "loop"

\* The threads at position pc.
At(pc) == {t \in Threads : loops[t].pc = pc}

\* The record of a start_trading call making its test.
StartTest(c) ==
    /\ c.op = "start_trading"
    /\ c.outcome \in {"passed", "manually_stopped", "already_running"}

AtMostOneLoop == is_running => Cardinality(At("loop")) <= 1

\* C12: CLOSED is terminal: a CLOSED position stays CLOSED, and its
\* entry_price, quantity, exit_price, exit_time and realized_pnl are changed
\* by no later step (cycle, SELL, PnL refresh, close_all_positions).
ClosedIsTerminal ==
    [][\A i \in DOMAIN positions :
          positions[i].status = "CLOSED"
            => /\ i \in DOMAIN positions'
               /\ positions'[i].status = "CLOSED"
               /\ positions'[i].symbol = positions[i].symbol
               /\ positions'[i].entry_price = positions[i].entry_price
               /\ positions'[i].quantity = positions[i].quantity
               /\ positions'[i].exit_price = positions[i].exit_price
               /\ positions'[i].exit_time = positions[i].exit_time
               /\ positions'[i].realized_pnl = positions[i].realized_pnl]_vars

\* An asset holds a CLOSED position and a later OPEN one whose price a cycle
\* has just refreshed.
RefreshedBesideClosed ==
    /\ call.op = "cycle"
    /\ \E i, j \in DOMAIN positions :
          /\ i < j
          /\ positions[i].symbol = positions[j].symbol
          /\ positions[i].status = "CLOSED"
          /\ positions[j].status = "OPEN"
          /\ positions[j].current_price # positions[j].entry_price

\* C13: the trade log grows only when positions close: every step appends
\* exactly one Trade for each position it closes, of side SELL with the
\* quantity and the realized PnL of that position, and a step that opens a
\* position without closing one leaves the log unchanged.
TradesFollowCloses ==
    [][LET closed == {i \in DOMAIN positions \cap DOMAIN positions' :
                        /\ positions[i].status = "OPEN"
                        /\ positions'[i].status = "CLOSED"}
           new == {k \in DOMAIN trades' : k > Len(trades)}
       IN
       /\ Len(trades') >= Len(trades)
       /\ SubSeq(trades', 1, Len(trades)) = trades
       /\ Cardinality(new) = Cardinality(closed)
       /\ \A k \in new :
             /\ trades'[k].side = "SELL"
             /\ \E i \in closed :
                   /\ trades'[k].symbol = positions[i].symbol
                   /\ trades'[k].quantity = positions[i].quantity
                   /\ Some(trades'[k].pnl) = positions'[i].realized_pnl]_vars

\* A BUY has just opened a position for an asset whose earlier position was
\* closed and logged: the log holds that one Trade.
BoughtAfterLoggedClose ==
    /\ call.op = "execute_trade"
    /\ call.outcome = "bought"
    /\ Len(trades) = 1
    /\ \E i, j \in DOMAIN positions :
          /\ i < j
          /\ positions[i].status = "CLOSED"
          /\ positions[j].status = "OPEN"
          /\ positions[j].entry_time = now
          /\ trades[1].symbol = positions[i].symbol
          /\ trades[1].quantity = positions[i].quantity
          /\ Some(trades[1].pnl) = positions[i].realized_pnl

\* C14: the stored trade history holds at most max_trades_history records.
TradeHistoryBounded == Len(trades) <= max_trades_history

\* A BUY call c that meets no rejection in the current state.
BuyAccepted(c) ==
    /\ c.op = "execute_trade"
    /\ c.action = "BUY"
    /\ ~InCooldown(position_cooldown, c.symbol, now)
    /\ OpenIdxOf(positions, c.symbol) = {}
    /\ c.price * c.quantity <= balance

\* C15: a BUY for an asset that is not in cooldown and has no OPEN position,
\* with price * quantity <= balance, decreases the balance by exactly
\* price * quantity, inserts exactly one position (OPEN, LONG,
\* unrealized_pnl 0, current_price = entry_price = signal price), records
\* the cooldown of the asset, and changes nothing else.
BuyOpensOnePosition ==
    [][BuyAccepted(call')
        => /\ balance' = balance - call'.price * call'.quantity
           /\ Len(positions') = Len(positions) + 1
           /\ SubSeq(positions', 1, Len(positions)) = positions
           /\ LET p == positions'[Len(positions')] IN
                 /\ p.symbol = call'.symbol
                 /\ p.status = "OPEN"
                 /\ p.side = "LONG"
                 /\ p.unrealized_pnl = 0
                 /\ p.entry_price = call'.price
                 /\ p.current_price = call'.price
                 /\ p.quantity = call'.quantity
                 /\ p.entry_time = now
                 /\ p.exit_price = None /\ p.exit_time = None
                 /\ p.realized_pnl = None
           /\ position_cooldown' =
                 [position_cooldown EXCEPT ![call'.symbol] = Some(now)]
           /\ UNCHANGED <<trades, market_data, market_order, price_history,
                          risk, cache, is_running, manually_stopped, loops, stop,
                          now>>]_vars

\* A BUY has just opened a position after the cooldown of an earlier trade
\* on the asset had expired.
BoughtAfterCooldown ==
    /\ call.op = "execute_trade"
    /\ call.action = "BUY"
    /\ call.outcome = "bought"
    /\ Len(positions) >= 2
    /\ positions[Len(positions)].symbol = call.symbol
    /\ positions[Len(positions)].status = "OPEN"
    /\ positions[Len(positions)].entry_time = now
    /\ position_cooldown[call.symbol] = Some(now)
    /\ \E i \in 1..(Len(positions) - 1) :
          /\ positions[i].symbol = call.symbol
          /\ positions[i].status = "CLOSED"

\* What a SELL call c does when it is carried out: the first OPEN position
\* of the asset is CLOSED with exit_price, exit_time and realized_pnl, the
\* balance grows by sell_price * quantity, one Trade is appended and the
\* cooldown of the asset is recorded.
SellCarriedOut(c) ==
    LET i == SoldIdx(c) IN
    /\ Len(positions') = Len(positions)
    /\ positions'[i].status = "CLOSED"
    /\ positions'[i].exit_price = Some(c.price)
    /\ positions'[i].exit_time = Some(now)
    /\ positions'[i].realized_pnl = Some(Round2(RawPnl(c)))
    /\ \A j \in DOMAIN positions \ {i} : positions'[j] = positions[j]
    /\ balance' = balance + c.price * positions[i].quantity
    /\ Len(trades') = Len(trades) + 1
    /\ position_cooldown' = [position_cooldown EXCEPT ![c.symbol] = Some(now)]

\* C16, as claimed: a SELL for an asset with an OPEN position and
\* (sell_price - entry_price) * quantity >= 0.01 is carried out, also while
\* the cooldown of the asset is active.
SellRejectedOnlyByPositionOrFloor ==
    [][(IsSell(call') /\ SoldIdx(call') # 0 /\ RawPnl(call') >= MinProfit)
        => SellCarriedOut(call')]_vars

\* C16, amended: a SELL is rejected while the cooldown of the asset is
\* active (nothing changes); outside the cooldown, with an OPEN position
\* and round((sell_price - entry_price) * quantity, 2) >= 0.01, it is
\* carried out.
SellRejectedAlsoByCooldown ==
    [][/\ (IsSell(call') /\ InCooldown(position_cooldown, call'.symbol, now))
          => UNCHANGED <<positions, trades, balance, position_cooldown>>
       /\ (/\ IsSell(call')
           /\ ~InCooldown(position_cooldown, call'.symbol, now)
           /\ SoldIdx(call') # 0
           /\ Round2(RawPnl(call')) >= MinProfit)
          => SellCarriedOut(call')]_vars

\* A SELL has just closed a position.
SellJustCarriedOut ==
    /\ IsSell(call)
    /\ call.outcome = "sold"
    /\ position_cooldown[call.symbol] = Some(now)
    /\ Len(trades) >= 1
    /\ \E i \in DOMAIN positions :
          /\ positions[i].symbol = call.symbol
          /\ positions[i].status = "CLOSED"
          /\ positions[i].exit_time = Some(now)
          /\ positions[i].exit_price = Some(call.price)

\* The signals the strategies emit for asset s in the analysis just made:
\* the store is the one analysed, price_history holds the recorded price.
Candidates(s) ==
    IF market_data[s] = None THEN <<>>
    ELSE StrategySignals(Store, risk, s, market_data[s][1], price_history[s], now)

\* The signals returned for asset s.
Returned(s) == {k \in DOMAIN call.signals : call.signals[k].symbol = s}

\* C17: analyze_market returns at most one signal per asset, however many
\* strategies fire for it.
OneSignalPerAsset == \A s \in Symbols : Cardinality(Returned(s)) <= 1

\* Three strategies or more fired for an asset and one signal was returned
\* for it.
OneOfSeveralReturned ==
    /\ call.op = "analyze_market"
    /\ \E s \in Symbols :
          /\ Len(Candidates(s)) >= 3
          /\ Cardinality(Returned(s)) = 1

\* C18: the signal returned for an asset is, among the signals the
\* strategies emitted for it in the order momentum, mean reversion,
\* volatility breakout, scalping, risk exit, the first one of maximal
\* confidence.
FirstOfMaximalConfidence ==
    call.op = "analyze_market"
        => \A s \in Symbols :
              Candidates(s) # <<>>
                => \E k \in Returned(s), j \in DOMAIN Candidates(s) :
                      /\ call.signals[k] = Candidates(s)[j]
                      /\ \A m \in DOMAIN Candidates(s) :
                            Candidates(s)[m].confidence <= Candidates(s)[j].confidence
                      /\ \A m \in 1..(j - 1) :
                            Candidates(s)[m].confidence < Candidates(s)[j].confidence

\* Two strategies emitted signals of the same, maximal, confidence for an
\* asset and the signal of the earlier strategy was returned.
TieWonByEarlier ==
    /\ call.op = "analyze_market"
    /\ \E s \in Symbols, k \in DOMAIN call.signals :
          \E j, m \in DOMAIN Candidates(s) :
            /\ j < m
            /\ Candidates(s)[j].confidence = Candidates(s)[m].confidence
            /\ \A n \in DOMAIN Candidates(s) :
                  Candidates(s)[n].confidence <= Candidates(s)[j].confidence
            /\ call.signals[k] = Candidates(s)[j]
            /\ call.signals[k] # Candidates(s)[m]

\* The exposure gate is closed for asset s: the total open notional is
\* above 90% of the balance or the open notional of s above 4% of it.
GateClosed(s) ==
    \/ Exposure(positions, OpenIdx(positions)) * 100 > 90 * balance
    \/ Exposure(positions, OpenIdxOf(positions, s)) * 100 > 4 * balance

\* C20: when the exposure gate is closed for an asset without OPEN
\* position, no strategy emits a BUY signal for it and none is returned.
ClosedGateSuppressesBuy ==
    call.op = "analyze_market"
        => \A s \in Symbols :
              (OpenIdxOf(positions, s) = {} /\ GateClosed(s))
                => /\ \A j \in DOMAIN Candidates(s) : Candidates(s)[j].action # "BUY"
                   /\ \A k \in Returned(s) : call.signals[k].action # "BUY"

\* The gate was closed for an asset without OPEN position whose observation
\* is past the thresholds of momentum and scalping, and no signal came out.
BuySuppressedByGate ==
    /\ call.op = "analyze_market"
    /\ \E s \in Symbols :
          /\ OpenIdxOf(positions, s) = {}
          /\ GateClosed(s)
          /\ market_data[s] # None
          /\ \A k \in DOMAIN market_order : market_order[k] = s
          /\ market_data[s][1].change_24h > buy_threshold
          /\ Len(price_history[s]) = 5
          /\ market_data[s][1].price > price_history[s][1]
          /\ call.signals = <<>>

\* C19: every position has a quantity above 0: a size of 0 computed by
\* _calculate_position_size opens no position.
EveryPositionHasQuantity ==
    \A i \in DOMAIN positions : positions[i].quantity > 0

\* The unrealized PnL of row p is (current_price - entry_price) * quantity
\* to the nearest cent.
PnlOfLong(p) ==
    LET exact == (p.current_price - p.entry_price) * p.quantity
        d == p.unrealized_pnl - exact
    IN /\ p.unrealized_pnl % UnitsPerCent = 0
       /\ 2 * d <= UnitsPerCent
       /\ -2 * d <= UnitsPerCent

\* The OPEN LONG rows of an asset that has a market observation.
Observed ==
    {i \in OpenIdx(positions) :
        positions[i].side = "LONG" /\ market_data[positions[i].symbol] # None}

\* C21: after a cycle every OPEN LONG position of an asset with a market
\* observation holds the latest observed price as current_price and
\* (current_price - entry_price) * quantity, to the cent, as unrealized_pnl;
\* one coin entered at 100 and observed at 95 holds -5.00.
RefreshedAfterCycle ==
    /\ call.op = "cycle"
         => \A i \in Observed :
               /\ positions[i].current_price
                    = market_data[positions[i].symbol][1].price
               /\ PnlOfLong(positions[i])
    /\ update_position_pnl(
           <<Held("bitcoin", 100, UnitsPerDollar)>>,
           [s \in Symbols |-> Some([price |-> 95, change_24h |-> 0])],
           "bitcoin")[1].unrealized_pnl = -5 * UnitsPerDollar

\* A cycle ended with an OPEN position observed away from its entry price.
PositionRepriced ==
    /\ call.op = "cycle"
    /\ \E i \in Observed :
          /\ positions[i].current_price # positions[i].entry_price
          /\ positions[i].unrealized_pnl # 0

\* Row i is OPEN and the price the cycle observes for its asset puts its
\* pnl_percent below stop_loss.
StopLossCase(i) ==
    /\ i \in OpenIdx(positions)
    /\ market_data'[positions[i].symbol] # None
    /\ (market_data'[positions[i].symbol][1].price - positions[i].entry_price) * 10000
         < stop_loss * positions[i].entry_price

\* The SELL signals of confidence 0.95 the cycle returned for row i, for its
\* full quantity at the observed price.
StopSignals(i) ==
    {k \in DOMAIN call'.signals :
        /\ call'.signals[k].symbol = positions[i].symbol
        /\ call'.signals[k].action = "SELL"
        /\ call'.signals[k].confidence = 950
        /\ call'.signals[k].quantity = positions[i].quantity
        /\ call'.signals[k].price = market_data'[positions[i].symbol][1].price}

\* The cycle left row i, the balance and the trade log as they were (the
\* cycle executed signals of the asset of row i only).
StopLeftOpen(i) ==
    (\A k \in DOMAIN call'.signals : call'.signals[k].symbol = positions[i].symbol)
        => /\ positions'[i].status = "OPEN"
           /\ positions'[i].quantity = positions[i].quantity
           /\ balance' = balance
           /\ trades' = trades

\* C22 as stated: a cycle that observes an OPEN position below the stop
\* loss returns a STOP_LOSS SELL of confidence 0.95 for its full quantity,
\* and the execution reaches the 0.01 profit floor and is rejected there:
\* position OPEN, balance and trade log unchanged.
StopLossRejectedByFloor ==
    [][call'.op = "cycle"
         => \A i \in DOMAIN positions :
               StopLossCase(i)
                 => /\ \E k \in StopSignals(i) :
                          call'.signals[k].strategy = "STOP_LOSS"
                    /\ ~InCooldown(position_cooldown, positions[i].symbol, now)
                    /\ StopLeftOpen(i)]_vars

\* C22 amended: the cycle returns a SELL of confidence 0.95 for the full
\* quantity, from STOP_LOSS or from MOMENTUM when its SELL reaches 0.95 too,
\* and the execution is rejected, by the cooldown of the asset when it is
\* active and by the profit floor otherwise: position OPEN, balance and
\* trade log unchanged.
StopLossSellRejected ==
    [][call'.op = "cycle"
         => \A i \in DOMAIN positions :
               StopLossCase(i)
                 => /\ \E k \in StopSignals(i) :
                          call'.signals[k].strategy \in {"STOP_LOSS", "MOMENTUM"}
                    /\ StopLeftOpen(i)]_vars

\* A cycle returned a STOP_LOSS SELL for a position held at a loss whose
\* cooldown had expired, and the position is still OPEN.
StopLossSellTurnedDown ==
    /\ call.op = "cycle"
    /\ Len(call.signals) = 1
    /\ call.signals[1].strategy = "STOP_LOSS"
    /\ \E i \in OpenIdx(positions) :
          /\ positions[i].symbol = call.signals[1].symbol
          /\ positions[i].unrealized_pnl < 0
          /\ ~InCooldown(position_cooldown, positions[i].symbol, now)
    /\ trades = <<>>

\* The fresh bot of the scenario: balance 10000, the settings of __init__,
\* no OPEN position.
FreshStore == [balance |-> InitialBalance, positions |-> <<>>]

\* C23: with balance 10000, risk_per_trade 0.015, multiplier 1.0, no OPEN
\* position and price 100, _calculate_position_size returns 1.5, below the
\* ceiling of 2.0, and the cycle that executes the BUY of that size brings
\* the balance to 9850.
ScenarioBuyCosts150 ==
    /\ calculate_position_size(FreshStore, DefaultRisk, 100, "bitcoin")
         = (3 * UnitsPerDollar) \div 2
    /\ CeilingClamp(2 * UnitsPerDollar + 1, 100, InitialBalance) = 2 * UnitsPerDollar
    /\ (/\ call.op = "cycle"
        /\ Len(call.signals) = 1
        /\ call.signals[1].action = "BUY"
        /\ call.signals[1].price = 100
        /\ risk.risk_per_trade = 150
        /\ risk.position_sizing_multiplier = 100
        /\ balance_at_open = <<InitialBalance>>)
         => /\ call.signals[1].quantity = (3 * UnitsPerDollar) \div 2
            /\ Len(positions) = 1
            /\ positions[1].quantity = (3 * UnitsPerDollar) \div 2
            /\ balance = 9850 * UnitsPerDollar

\* The first cycle of the fresh bot bought at 100.
ScenarioBought ==
    /\ call.op = "cycle"
    /\ Len(call.signals) = 1
    /\ call.signals[1].action = "BUY"
    /\ call.signals[1].price = 100
    /\ balance_at_open = <<InitialBalance>>
    /\ balance = 9850 * UnitsPerDollar
    /\ now = 0

\* The step is a cycle in which row i was sold and the trim of the trade
\* history raised in execute_trade.
SoldAndRaised(i) ==
    /\ call'.op = "cycle"
    /\ i \in OpenIdx(positions)
    /\ positions'[i].status = "CLOSED"
    /\ Len(trades') = Len(trades) + 1
    /\ Len(trades') > max_trades_history

\* Signal k of the cycle is a BUY that execute_trade accepts: no cooldown, no
\* OPEN position of the asset, a cost within the balance.
AcceptableBuy(k) ==
    /\ call'.signals[k].action = "BUY"
    /\ ~InCooldown(position_cooldown, call'.signals[k].symbol, now)
    /\ OpenIdxOf(positions, call'.signals[k].symbol) = {}
    /\ call'.signals[k].price * call'.signals[k].quantity <= balance

\* C24: no failure inside an iteration ends the trading loop. A cycle,
\* whatever raised in it, leaves its thread in trading_loop, in the interval
\* sleep; the signals that follow one whose execution raised are executed;
\* a thread leaves trading_loop only by finding is_running false at the
\* while test.
LoopSurvivesFailures ==
    [][/\ call'.op = "cycle"
            => /\ Cardinality(At("loop")') = Cardinality(At("loop"))
               /\ \E t \in At("loop")' : loops'[t].sleep = trading_interval
       /\ \A i \in DOMAIN positions, j, k \in DOMAIN call'.signals :
             (/\ SoldAndRaised(i)
              /\ call'.signals[j].symbol = positions[i].symbol
              /\ j < k
              /\ AcceptableBuy(k))
               => \E n \in OpenIdx(positions') :
                     /\ n \notin DOMAIN positions
                     /\ positions'[n].symbol = call'.signals[k].symbol
       /\ Cardinality(At("loop")') < Cardinality(At("loop"))
            => /\ call'.op = "loop_exit"
               /\ ~is_running
               /\ \E t \in At("loop") : loops[t].sleep = 0]_vars

\* The first iteration raised in the analysis (ethereum without price); the
\* loop slept and ran the next one, in which the SELL of bitcoin raised in
\* the trim and the BUY of ethereum that followed it was executed.
LoopWentOnAfterFailures ==
    /\ call.op = "cycle"
    /\ Len(price_history["ethereum"]) = 2
    /\ price_history["ethereum"][1] = 0
    /\ Len(trades) > max_trades_history
    /\ Len(call.signals) = 2
    /\ call.signals[1].action = "SELL"
    /\ OpenIdxOf(positions, "ethereum") # {}
    /\ \E t \in Threads : loops[t] = [pc |-> "loop", sleep |-> trading_interval]

\* The step is a cycle whose fetch failed.
StaleCycle == call'.op = "cycle" /\ ~call'.fetched

\* Asset s, observed earlier, without OPEN position and past its cooldown,
\* stands above the BUY threshold of momentum with the exposure gate open.
StaleBuyDue(s) ==
    /\ market_data[s] # None
    /\ market_data[s][1].change_24h > buy_threshold
    /\ OpenIdxOf(positions, s) = {}
    /\ ~GateClosed(s)
    /\ ~InCooldown(position_cooldown, s, now)

BuyRejected(c) ==
    /\ c.op = "execute_trade"
    /\ c.action = "BUY"
    /\ \/ InCooldown(position_cooldown, c.symbol, now)
       \/ OpenIdxOf(positions, c.symbol) # {}
       \/ c.price * c.quantity > balance

\* C26: a BUY that meets an active cooldown, an OPEN position of its asset
\* or a cost above the balance returns without raising and leaves balance,
\* positions, trade log and cooldown table as they were.
RejectedBuyIsNoOp ==
    [][BuyRejected(call')
         => /\ call'.outcome \in {"cooldown", "already_open", "insufficient"}
            /\ UNCHANGED <<balance, positions, trades, position_cooldown>>]_vars

\* A BUY was turned down for its cost by a bot that holds nothing and has no
\* cooldown running for the asset.
BuyTurnedDownForCost ==
    /\ call.op = "execute_trade"
    /\ call.action = "BUY"
    /\ call.outcome = "insufficient"
    /\ call.price * call.quantity > balance
    /\ OpenIdxOf(positions, call.symbol) = {}
    /\ ~InCooldown(position_cooldown, call.symbol, now)

\* C27: the price history of an asset holds at most max_history_length
\* prices, the most recent observations in their order: every cycle appends
\* the observed price of every asset with data, once, and drops only the
\* oldest entries beyond the bound.
PriceRecordedEachCycle ==
    [][call'.op = "cycle"
         => \A s \in Symbols :
               /\ Len(price_history'[s]) <= max_history_length
               /\ market_data'[s] # None
                    => price_history'[s]
                         = LastK(Append(price_history[s], market_data'[s][1].price),
                                 max_history_length)
               /\ market_data'[s] = None => price_history'[s] = price_history[s]]_vars

\* The users that are at a cache.
Busy == {u \in CacheUsers : cache.at[u].pc = "busy"}

\* C28: every read and every write of popular_market_data and market_data
\* happens while its thread holds market_data_lock, so that no reader is at
\* a cache while another thread is writing it.
CachesAccessedUnderLock ==
    /\ \A u \in Busy : cache.lock = u
    /\ \A r, w \in Busy :
          (r # w /\ Writes(w) /\ ~Writes(r)) => Touches(r) \cap Touches(w) = {}

\* The rows that were closed.
ClosedIdx == {i \in DOMAIN positions : positions[i].status = "CLOSED"}

\* What the rows account for: every cost debited, the proceeds of every
\* closed row credited once.
Accounted ==
    SumOver([i \in DOMAIN positions |->
                -(positions[i].entry_price * positions[i].quantity)],
            DOMAIN positions)
    + SumOver([i \in DOMAIN positions |->
                IF i \in ClosedIdx
                THEN positions[i].exit_price[1] * positions[i].quantity ELSE 0],
              DOMAIN positions)

StatusReportsTotals ==
    call.op = "get_status"
        => LET st == call.status[1] IN
           /\ st.open_positions = Cardinality(OpenIdx(positions))
           /\ st.total_unrealized_pnl
                = SumOver([i \in DOMAIN positions |-> positions[i].unrealized_pnl],
                          OpenIdx(positions))
           /\ st.total_realized_pnl
                = SumOver([i \in DOMAIN positions |->
                              IF i \in ClosedIdx THEN positions[i].realized_pnl[1]
                              ELSE 0], ClosedIdx)
           /\ st.total_pnl = st.total_realized_pnl + st.total_unrealized_pnl

\* The step leaves the balance, the trade log, the cooldown table and, of
\* every position, the status, the entry and exit fields and the quantity
\* as they were.
TradingStateKept ==
    /\ balance' = balance
    /\ trades' = trades
    /\ position_cooldown' = position_cooldown
    /\ DOMAIN positions' = DOMAIN positions
    /\ \A i \in DOMAIN positions :
          /\ positions'[i].status = positions[i].status
          /\ positions'[i].symbol = positions[i].symbol
          /\ positions'[i].entry_price = positions[i].entry_price
          /\ positions'[i].entry_time = positions[i].entry_time
          /\ positions'[i].exit_price = positions[i].exit_price
          /\ positions'[i].exit_time = positions[i].exit_time
          /\ positions'[i].realized_pnl = positions[i].realized_pnl
          /\ positions'[i].quantity = positions[i].quantity

\* The step changes the balance or the status of a position.
BalanceOrStatusChanged ==
    \/ balance' # balance
    \/ DOMAIN positions' # DOMAIN positions
    \/ \E i \in DOMAIN positions \cap DOMAIN positions' :
          positions'[i].status # positions[i].status

\* The operations that run execute_trade or close_all_positions: the two
\* themselves, a cycle of the loop, stop_trading.
ExecutionOps == {"execute_trade", "close_all_positions", "cycle", "stop_trading"}

ScalpingBuy(s) ==
    \E k \in DOMAIN Candidates(s) :
        /\ Candidates(s)[k].strategy = "SCALPING"
        /\ Candidates(s)[k].action = "BUY"

\* C32: for an asset without OPEN position whose recorded prices reach 5
\* observations behind the current one, the scalping strategy emits a BUY
\* exactly when the current price is more than min_gain percent above the
\* price recorded 5 observations before it and the exposure gate passes.
ScalpingComparesFiveBack ==
    call.op = "analyze_market"
        => \A s \in Symbols :
              (/\ market_data[s] # None
               /\ FirstOpen(positions, s) = 0
               /\ Len(price_history[s]) >= 6)
                => LET h == price_history[s]
                       current == h[Len(h)]
                       p == h[Len(h) - 5]
                   IN ScalpingBuy(s)
                        <=> /\ (current - p) * 10000 > min_gain * p
                            /\ ~GateClosed(s)

\* stop_trading has set is_running to false.
StopHasSetFlag == ~is_running /\ (manually_stopped \/ stop.pc = 2)

\* No thread is in trading_loop.
NoLoopLeft == \A t \in Threads : loops[t].pc # "loop"

\* C33: once stop_trading has set is_running to false and no restart is
\* issued, the trading loop ends, and no iteration begins while is_running
\* is false.
StoppedLoopTerminates ==
    /\ StopHasSetFlag ~> NoLoopLeft
    /\ [][~is_running => call'.op # "cycle"]_vars

\* C34: in every reachable state the number of OPEN positions is at most
\* max_concurrent_positions.
OpenPositionsWithinLimit ==
    Cardinality(OpenIdx(positions)) <= risk.max_concurrent_positions

\* C35: the balance is the initial balance, less entry_price * quantity of
\* the OPEN positions, plus (exit_price - entry_price) * quantity of the
\* CLOSED positions.
BalanceConserved ==
    balance = InitialBalance
              - Exposure(positions, OpenIdx(positions))
              + SumOver([i \in DOMAIN positions |->
                            IF i \in ClosedIdx
                            THEN (positions[i].exit_price[1] - positions[i].entry_price)
                                    * positions[i].quantity
                            ELSE 0], ClosedIdx)

\* A trade was just turned down while the bot holds an OPEN position and
\* has closed another at a price other than its entry price.
TradeTurnedDownAfterRoundTrip ==
    /\ call.op = "execute_trade"
    /\ call.outcome \in {"cooldown", "already_open", "below_floor", "no_position"}
    /\ OpenIdx(positions) # {}
    /\ \E i \in ClosedIdx : positions[i].exit_price[1] # positions[i].entry_price

\* The balance plus the entry cost of the OPEN positions.
Equity(bal, pos) == bal + Exposure(pos, OpenIdx(pos))

\* C36: every CLOSED position and every Trade has a realized PnL of at
\* least 0.01; a step closes a position only at a price above its entry
\* price; no step decreases the balance plus the entry cost of the OPEN
\* positions.
ClosesOnlyAtProfit ==
    /\ [](/\ \A i \in ClosedIdx : positions[i].realized_pnl[1] >= MinProfit
          /\ \A k \in DOMAIN trades : trades[k].pnl >= MinProfit)
    /\ [][/\ \A i \in DOMAIN positions :
                positions[i].status = "OPEN" /\ positions'[i].status = "CLOSED"
                   => positions'[i].exit_price[1] > positions[i].entry_price
          /\ Equity(balance', positions') >= Equity(balance, positions)]_vars

\* A cycle has just closed a position at a profit while another position,
\* observed at or below its entry price, stays OPEN.
ClosedAtProfitBesideLoser ==
    /\ call.op = "cycle"
    /\ \E i \in ClosedIdx :
          /\ positions[i].exit_time = Some(now)
          /\ positions[i].realized_pnl[1] >= MinProfit
    /\ \E j \in OpenIdx(positions) :
          /\ positions[j].entry_time < now
          /\ positions[j].current_price <= positions[j].entry_price
    /\ Equity(balance, positions) > InitialBalance

\* The rows the step closes.
ClosedByStep ==
    {i \in DOMAIN positions :
        positions[i].status = "OPEN" /\ positions'[i].status = "CLOSED"}

\* C37: every BUY signal an analysis returns is for an asset without OPEN
\* position at the evaluation, every SELL signal for an asset with an OPEN
\* position and of that position's quantity; a step that closes positions
\* closes each as a whole, whatever quantity the signal carries: the row
\* keeps its quantity, the balance is credited with exit price times that
\* quantity and the Trade and the realized PnL are of that quantity.
SignalsAgreeWithPositions ==
    [][/\ call'.op \in {"cycle", "analyze_market"}
          => \A k \in DOMAIN call'.signals :
                LET sig == call'.signals[k]
                    i == FirstOpen(positions, sig.symbol)
                IN /\ sig.action \in {"BUY", "SELL"}
                   /\ sig.action = "BUY" => i = 0
                   /\ sig.action = "SELL"
                         => i # 0 /\ sig.quantity = positions[i].quantity
       /\ \A i \in ClosedByStep :
             /\ positions'[i].quantity = positions[i].quantity
             /\ positions'[i].realized_pnl
                  = Some(Round2((positions'[i].exit_price[1] - positions[i].entry_price)
                                   * positions[i].quantity))
             /\ \E k \in DOMAIN trades' \ DOMAIN trades :
                   /\ trades'[k].symbol = positions[i].symbol
                   /\ trades'[k].quantity = positions[i].quantity
             /\ OpenIdxOf(positions', positions[i].symbol) = {}
       /\ Equity(balance', positions') - Equity(balance, positions)
             = SumOver([i \in DOMAIN positions |->
                           IF i \in ClosedByStep
                           THEN (positions'[i].exit_price[1] - positions[i].entry_price)
                                   * positions[i].quantity
                           ELSE 0], ClosedByStep)]_vars

\* A SELL carrying another quantity than the position's has just closed
\* the position.
WholePositionClosedByOtherQuantity ==
    /\ call.op = "execute_trade"
    /\ call.action = "SELL"
    /\ call.outcome = "sold"
    /\ \E i \in ClosedIdx :
          /\ positions[i].exit_time = Some(now)
          /\ positions[i].symbol = call.symbol
          /\ positions[i].quantity # call.quantity
          /\ trades[Len(trades)].quantity = positions[i].quantity

\* The step opens or closes a position of asset s: a BUY or a SELL for s
\* was carried out.
TradedIn(s) ==
    \/ \E i \in DOMAIN positions' \ DOMAIN positions : positions'[i].symbol = s
    \/ \E i \in ClosedByStep : positions[i].symbol = s

\* C38: the cooldown timestamp of an asset changes only in a step that
\* carries out a BUY or SELL for that asset, and then to the time of the
\* step; while the cooldown of an asset is active an execute_trade call for
\* it changes nothing, and a cycle neither opens nor closes a position of
\* it.
CooldownChangesOnlyByTrades ==
    [][/\ \A s \in Symbols :
             /\ position_cooldown'[s] # position_cooldown[s]
                   => TradedIn(s) /\ position_cooldown'[s] = Some(now)
             /\ InCooldown(position_cooldown, s, now) => ~TradedIn(s)
       /\ (/\ call'.op = "execute_trade"
           /\ InCooldown(position_cooldown, call'.symbol, now))
             => UNCHANGED <<balance, positions, trades, position_cooldown,
                            market_data, market_order, price_history, risk,
                            is_running, manually_stopped, loops, stop, now>>]_vars

\* A cycle has bought one asset while its signal for another, still in the
\* cooldown of an earlier trade, was turned down.
TradedBesideCooldown ==
    /\ call.op = "cycle"
    /\ \E s, u \in Symbols :
          /\ s # u
          /\ position_cooldown[u] = Some(now)
          /\ position_cooldown[s] # None
          /\ position_cooldown[s][1] < now
          /\ InCooldown(position_cooldown, s, now)
          /\ \E k \in DOMAIN call.signals : call.signals[k].symbol = s

====
